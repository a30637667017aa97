------------------------------- MODULE RtuWire -------------------------------
(***************************************************************************)
(* The bytes of an RTU frame as mb_rtu.c writes and checks them: the frame *)
(* mb_rtu_tx puts on the line, and the result mb_rtu_rx returns for a      *)
(* frame received whole (one address byte, the rest read before T1P5, no   *)
(* byte after it before T3P5). RtuFramer abstracts the CRC check to        *)
(* "the characters read are one whole intact frame"; this module computes  *)
(* it. A byte is 0..255, a frame a sequence of bytes.                      *)
(***************************************************************************)
EXTENDS ModbusPdu, Crc16

(* The CRC mb_rtu_tx computes: over the address, then over the PDU with   *)
(* the first result as preload (the length cast to uint8_t).               *)
TxCrc(slave, pdu) == mb_crc(pdu, Len(pdu) % 256, mb_crc(<<slave>>, 1, 65535))

(* Mutant: the CRC is sent high byte first.                                *)
TxBytesBigEndian(slave, pdu) ==
  <<slave>> \o pdu \o <<TxCrc(slave, pdu) \div 256, TxCrc(slave, pdu) % 256>>

(* mb_rtu_tx: the address, the PDU, then the crc_t as it lies in memory;   *)
(* every port (x86 Linux and Windows, Cortex-M rt-kernel) is little-endian, *)
(* so the low byte goes first.                                             *)
TxBytes(slave, pdu) ==
  <<slave>> \o pdu \o <<TxCrc(slave, pdu) % 256, TxCrc(slave, pdu) \div 256>>

(* The CRC mb_rtu_rx ends with: over slave_rx, then over the count bytes  *)
(* of the body (the length cast to uint8_t).                               *)
RxCrc(frame) ==
  mb_crc(Tail(frame), (Len(frame) - 1) % 256, mb_crc(<<frame[1]>>, 1, 65535))

(* Mutant: the station id is not matched.                                  *)
RxResultAnyUnit(frame, unit) ==
  IF RxCrc(frame) # 0 THEN ECRC_FAIL ELSE Len(frame) - 1 - 2

(* mb_rtu_rx: the CRC check, then the station id check, whose error wins; *)
(* a frame passing both returns count - sizeof (crc_t), computed in size_t *)
(* and cast to int, which for a count below 2 is -1 or -2 on both 32- and *)
(* 64-bit targets.                                                         *)
RxResult(frame, unit) ==
  IF frame[1] # unit /\ frame[1] # 0 THEN ESLAVE_ID
  ELSE IF RxCrc(frame) # 0 THEN ECRC_FAIL
  ELSE Len(frame) - 1 - 2

(* os_rtu_write for size bytes: write(2) takes at most size; a negative   *)
(* result is an error.                                                     *)
os_rtu_write(r, size) == IF r > size THEN size ELSE r

(* Mutant: the pointer is not advanced after a partial write.             *)
RECURSIVE WriteLoopNoAdvance(_, _, _, _)
WriteLoopNoAdvance(n, p, size, rs) ==
  IF size = 0 THEN [bytes |-> <<>>, done |-> TRUE]
  ELSE IF rs = <<>> THEN [bytes |-> <<>>, done |-> FALSE]
  ELSE LET nwrite == os_rtu_write(Head(rs), size)
       IN  IF nwrite = 0 THEN [bytes |-> <<>>, done |-> TRUE]
           ELSE LET out  == [j \in 1..nwrite |-> p + j - 1]
                    rest == WriteLoopNoAdvance(n, p, size - nwrite, Tail(rs))
                IN  [bytes |-> out \o rest.bytes, done |-> rest.done]

(* The loop of mb_rtu_write from byte p with size bytes left, rs being    *)
(* what the successive os_rtu_write calls return: the addresses of the     *)
(* bytes put on the line, relative to a buffer at 1..n (0 is the byte      *)
(* before it), and whether the loop ended (done FALSE: rs ran out). nwrite *)
(* is a size_t: 0 breaks the loop; -1 is SIZE_MAX, not <= 0, so            *)
(* p += nwrite steps back one byte and size -= nwrite grows by one.        *)
RECURSIVE WriteLoop(_, _, _, _)
WriteLoop(n, p, size, rs) ==
  IF size = 0 THEN [bytes |-> <<>>, done |-> TRUE]
  ELSE IF rs = <<>> THEN [bytes |-> <<>>, done |-> FALSE]
  ELSE LET nwrite == os_rtu_write(Head(rs), size)
       IN  IF nwrite = 0 THEN [bytes |-> <<>>, done |-> TRUE]
           ELSE LET out  == [j \in 1..nwrite |-> p + j - 1]
                    rest == WriteLoop(n, p + nwrite, size - nwrite, Tail(rs))
                IN  [bytes |-> out \o rest.bytes, done |-> rest.done]

(* mb_rtu_write of a buffer of n bytes.                                    *)
mb_rtu_write(n, rs) == WriteLoop(n, 1, n, rs)

====
