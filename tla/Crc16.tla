-------------------------------- MODULE Crc16 --------------------------------
(***************************************************************************)
(* mb_crc (mb_crc.h): the Modbus RTU CRC-16, reflected polynomial 0xA001, *)
(* processed least significant bit first. Only the prototype is in the     *)
(* repository; the definition follows the spec (4.1): a pure function of  *)
(* the buffer, its length and a preload, so that callers chain it over the *)
(* unit id and then the PDU.                                               *)
(***************************************************************************)
EXTENDS Integers, Sequences

LOCAL INSTANCE Bitwise

(* The reflected generator polynomial 0xA001.                              *)
Poly == 40961

(* One bit of the shift register: shift right, and xor the polynomial in  *)
(* when the bit shifted out is 1.                                          *)
CrcShift(crc) == IF crc % 2 = 1 THEN (crc \div 2) ^^ Poly ELSE crc \div 2

RECURSIVE CrcBits(_, _)
CrcBits(crc, n) == IF n = 0 THEN crc ELSE CrcBits(CrcShift(crc), n - 1)

(* The eight shifts of each low byte, computed once: the usual table of   *)
(* a byte-wise CRC.                                                        *)
CrcTable == [b \in 0..255 |-> CrcBits(b, 8)]

(* One byte: xor it into the low byte, then eight shifts. The shifts move *)
(* the high byte down unchanged and xor in the table entry of the low one. *)
CrcByte(crc, byte) == (crc \div 256) ^^ CrcTable[(crc % 256) ^^ byte]

(* mb_crc(buffer, len, preload): the CRC of the first len bytes.          *)
RECURSIVE mb_crc(_, _, _)
mb_crc(buffer, len, preload) ==
  IF len = 0 THEN preload
  ELSE mb_crc(Tail(buffer), len - 1, CrcByte(preload, Head(buffer)))

====
