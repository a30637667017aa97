---------------------------- MODULE MC_ModbusLink ----------------------------
(***************************************************************************)
(* Model-checking instances of ModbusLink: small sets of calls chosen so  *)
(* that reads of different sizes, an exception, a broadcast write and a    *)
(* call to an absent unit all occur, and the properties of the link.      *)
(***************************************************************************)
EXTENDS ModbusLink

(* A slave with 16 coils and holding registers, 2 inputs, 5 input         *)
(* registers, all callbacks present, no vendor functions.                  *)
SmallIomap ==
  [coils |-> [size |-> 16, get |-> TRUE, set |-> TRUE],
   inputs |-> [size |-> 2, get |-> TRUE, set |-> FALSE],
   holding_registers |-> [size |-> 16, get |-> TRUE, set |-> TRUE],
   input_registers |-> [size |-> 5, get |-> TRUE, set |-> FALSE],
   vendor |-> {}]

Call(kind, unit, table, off, qty) ==
  [kind |-> kind, unit |-> unit, table |-> table, off |-> off, qty |-> qty]

ReadCoils8    == Call("read", 1, 0, 1, 8)       \* 1-byte caller buffer
ReadHolding2  == Call("read", 1, 4, 1, 2)       \* 4-byte caller buffer
WriteBad      == Call("write_single", 1, 4, 20, 7)  \* beyond the table
WriteCoilBc   == Call("write_single", 0, 0, 1, 1)   \* broadcast
ReadAbsent    == Call("read", 2, 0, 1, 8)       \* no slave with unit 2
ReadBc        == Call("read", 0, 0, 1, 8)       \* rejected: broadcast read
SendRead      == Call("send_msg", 1, 4, 1, 2)   \* raw read of 2 registers
GetMsg        == Call("get_msg", 1, 0, 0, MAX_PDU_SIZE) \* a full-size msg
GetSmall      == Call("get_msg", 1, 0, 0, 2)    \* msg of 2 bytes

CallsRtu == {ReadCoils8, ReadHolding2, WriteBad, WriteCoilBc, ReadAbsent, ReadBc,
             SendRead, GetMsg}
CallsUnicast == {ReadCoils8, ReadHolding2, WriteBad, SendRead, GetMsg}
CallsRaw == {ReadHolding2, SendRead, GetSmall}

GetCallbackResults == {0, ESLAVE_DEVICE_FAILURE}

(* Symmetric reduction is unsound here: no model values are used.          *)

TypeOK ==
  /\ Transport \in Transports
  /\ slow \in SlowSlaves
  /\ mpc \in {"idle", "rx"}
  /\ spc \in {"rx", "reply"}
  /\ mcall \in Calls
  /\ tid \in 0..65535
  /\ munit \in 0..255
  /\ ncalls \in 0..MaxCalls
  /\ Len(outcome) <= ncalls
  /\ sbc \in BOOLEAN
  /\ faults \in 0..MaxFaults
  /\ drained \subseteq 1..MaxCalls
  /\ DOMAIN executed \subseteq 1..MaxCalls
  /\ sresp.len \in 0..MAX_PDU_SIZE
  /\ \A i \in DOMAIN toSlave : toSlave[i].pdu.len \in 0..MAX_PDU_SIZE
  /\ \A i \in DOMAIN toMaster : toMaster[i].pdu.len \in 0..MAX_PDU_SIZE

(***************************************************************************)
(* With a slave that answers within the timeout, every call that decoded *)
(* a frame decoded the answer to its own request, and every mbus_get_msg  *)
(* the answer to the last message sent (the ghost tag of the frame).      *)
(* Neither mbus.c nor the framers compare the reply with the request, so  *)
(* this rests on the exchange never leaving a reply behind.               *)
(***************************************************************************)
ReplyMatchesRequest ==
  ~slow =>
    \A k \in DOMAIN outcome :
      outcome[k].tag \in {0, M!RequestOf(outcome[k].call, k)}

(* What the master API must return for a call whose request the slave's   *)
(* handler answered with r (spec 4.4 and 7): the exception of the         *)
(* taxonomy, the received length for loopback, 0 otherwise; get_msg       *)
(* returns the length of the response PDU, 2 for an exception.            *)
ExpectedResult(call, r) ==
  IF call.kind = "get_msg" THEN IF r.ret < 0 THEN 2 ELSE r.ret
  ELSE IF r.ret < 0
  THEN IF r.ret \in {EILLEGAL_FUNCTION, EILLEGAL_DATA_ADDRESS,
                     EILLEGAL_DATA_VALUE, ESLAVE_DEVICE_FAILURE}
       THEN r.ret ELSE EUNKNOWN_EXCEPTION
  ELSE IF call.kind = "loopback" THEN r.ret ELSE 0

(***************************************************************************)
(* End to end, the result a call returns is what the slave's handler       *)
(* decided for the request it awaited, fast slave or slow: the exception   *)
(* encoding of mb_slave_handle_request and its decoding by mb_exception   *)
(* agree, and get_msg returns the length of the slave's response.          *)
(***************************************************************************)
ResultMatchesSlave ==
  \A k \in DOMAIN outcome :
    LET t == outcome[k].tag
    IN  t # 0 /\ t = M!RequestOf(outcome[k].call, k) =>
          outcome[k].result = ExpectedResult(outcome[k].call, executed[t])

(***************************************************************************)
(* A broadcast write is never answered: no frame on its way to the master *)
(* carries the tag of a call made to unit 0 (mb_slave_handle_request       *)
(* suppresses the reply when rtu->broadcast is set).                       *)
(***************************************************************************)
BroadcastNeverAnswered ==
  \A i \in DOMAIN toMaster :
    toMaster[i].tag \in DOMAIN outcome => outcome[toMaster[i].tag].call.unit # 0

(***************************************************************************)
(* mbus_read never writes more bytes into the caller's buffer than the     *)
(* caller provided for the quantity requested (memcpy and the register     *)
(* loop of mbus_read copy the response's byte count).                      *)
(***************************************************************************)
MasterReadWithinBuffer ==
  \A k \in DOMAIN outcome :
    outcome[k].call.kind = "read" =>
      outcome[k].copied <= CallerBufferSize(outcome[k].call)

(***************************************************************************)
(* mbus_get_msg writes no more into msg than the size the caller gives    *)
(* (mbus.h: "size  max size of message").                                  *)
(***************************************************************************)
GetMsgWithinBuffer ==
  \A k \in DOMAIN outcome :
    outcome[k].call.kind = "get_msg" => outcome[k].copied <= outcome[k].call.qty

(***************************************************************************)
(* The comment of the stale-response suppression in mb_slave.c and spec   *)
(* 4.3 step 4: when the slave drops its reply and drains a newer message,  *)
(* the master has already timed out on the request being answered.        *)
(***************************************************************************)
StaleSuppressionJustified ==
  [][drained' # drained =>
       /\ sreq.tag \in DOMAIN outcome
       /\ outcome[sreq.tag].result = ETIMEOUT]_vars

====
