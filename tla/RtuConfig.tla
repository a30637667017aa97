------------------------------ MODULE RtuConfig ------------------------------
(***************************************************************************)
(* The RTU driver's configuration code, as pure operators:                 *)
(*   mb_rtu.c: mb_rtu_bringup (the slave id parsed from the name the       *)
(*     device is opened with), mb_rtu_char_time and mb_rtu_serial_cfg      *)
(*     (the T1P5 and T3P5 timeouts in microseconds);                       *)
(*   ports/linux/mbal_rtu.c: os_rtu_set_serial_cfg (the termios speed the  *)
(*     UART is actually set to).                                           *)
(* A name is a sequence of character codes. Everything is unsigned 32-bit  *)
(* in the code; the values reached here stay far below 2^31, so no        *)
(* wrap-around is modelled (a name of ten or more digits would wrap        *)
(* slave * 10 + digit; that case is out of the checked names).             *)
(***************************************************************************)
EXTENDS Integers, Sequences

LOCAL INSTANCE Functions

(* The character '0'.                                                     *)
CharZero == 48

(* The loop of mb_rtu_bringup over the name: digit = *p++ - '0' as a     *)
(* uint8_t, so a character below '0' wraps to a large digit; -1 stands for *)
(* the goto error.                                                         *)
RECURSIVE BringupDigits(_, _)
BringupDigits(p, slave) ==
  IF p = <<>> THEN slave
  ELSE LET digit == (Head(p) - CharZero) % 256
       IN  IF digit > 9 THEN -1
           ELSE BringupDigits(Tail(p), slave * 10 + digit)

(* Mutant: the range check admits unit 248.                               *)
mb_rtu_bringup_248(name) ==
  LET slave == BringupDigits(name, 0)
  IN  IF slave < 0 \/ slave > 248 THEN -1 ELSE slave

(* mb_rtu_bringup: the slave id of the name, or -1 (errno ENOENT).        *)
mb_rtu_bringup(name) ==
  LET slave == BringupDigits(name, 0)
  IN  IF slave < 0 \/ slave > 247 THEN -1 ELSE slave

(* Mutant: the fixed 500 us character time from 1200 baud up.             *)
mb_rtu_char_time_1200(baudrate) ==
  IF baudrate > 1200 THEN 500 ELSE (11 * 1000 * 1000) \div baudrate

(* mb_rtu_char_time: one 11-bit character in microseconds, fixed at 500   *)
(* above 19200 baud.                                                       *)
mb_rtu_char_time(baudrate) ==
  IF baudrate > 19200 THEN 500 ELSE (11 * 1000 * 1000) \div baudrate

(* mb_rtu_serial_cfg: the timeouts handed to rtu->tmr_init.               *)
mb_rtu_serial_cfg(baudrate) ==
  LET char_time_us == mb_rtu_char_time(baudrate)
  IN  [t1p5 |-> (15 * char_time_us) \div 10,
       t3p5 |-> (35 * char_time_us) \div 10]

(* The speeds the termios switch of the Linux port knows.                 *)
LinuxBauds == {1200, 1800, 2400, 4800, 9600, 19200, 38400, 57600, 115200,
               230400, 460800}

(* os_rtu_set_serial_cfg (Linux): the speed the UART runs at; any other  *)
(* rate falls to the default B19200. Parity, raw mode and VMIN/VTIME set   *)
(* alongside do not bear on timing.                                        *)
os_rtu_set_serial_cfg(baudrate) ==
  IF baudrate \in LinuxBauds THEN baudrate ELSE 19200

(***************************************************************************)
(* Reference definitions.                                                  *)
(***************************************************************************)
IsDigit(c) == c \in CharZero .. CharZero + 9

(* The decimal value of a string of digits, by place value.               *)
DecimalValue(s) ==
  FoldFunction(+, 0, [i \in DOMAIN s |-> (s[i] - CharZero) * 10^(Len(s) - i)])

(* The unit a name denotes: the whole name is decimal digits naming a      *)
(* unit from 0 to 247 (spec 6: unit ids 1..247, 0 for broadcast).          *)
UnitOfName(name) ==
  IF (\A i \in DOMAIN name : IsDigit(name[i])) /\ DecimalValue(name) <= 247
  THEN DecimalValue(name) ELSE -1

(* The time one 11-bit character takes on a line of the given speed, in   *)
(* whole microseconds rounded up.                                          *)
CharDuration(speed) == (11 * 1000 * 1000 + speed - 1) \div speed

====
