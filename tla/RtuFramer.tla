------------------------------ MODULE RtuFramer ------------------------------
(***************************************************************************)
(* The RTU framer of mb_rtu.c at the level of characters, event flags and  *)
(* timers, on one node whose task alternates mb_rtu_tx and mb_rtu_rx (a    *)
(* master; a slave is the same loop shifted by one step), while a peer     *)
(* puts the frames of the list Frames on the bus.                          *)
(*                                                                         *)
(* The flags are the os_event_t of the driver. mb_rx_hook runs once per    *)
(* received character (the rt-kernel serial interrupt; the epoll thread on *)
(* Linux) and restarts both timers; the timer callbacks set T1P5 and T3P5. *)
(* Port selects the timer driver the ports provide: on "rtk" (the STM32    *)
(* driver) tmr_start stops both timers and starts only those given a       *)
(* callback; on "linux" a timer given no callback keeps running. The       *)
(* rt-kernel driver also waits for TX_EMPTY; Linux does not.               *)
(*                                                                         *)
(* Time is the silence on the bus since the peer's last character, pgap:  *)
(* 0 (under 1.5 characters), 1 (under 3.5), 2 (3.5 or more). A character  *)
(* of a frame follows the previous one within 1.5 characters unless the    *)
(* peer stalls (a gap, at most MaxGaps). A frame starts after 3.5          *)
(* characters of silence. Overlap: the peer's frames may overlap the       *)
(* node's transmissions (a late reply). SlowNode: the node's task may      *)
(* still be reading or returning a frame when the next one begins, 3.5     *)
(* characters later; when FALSE it has read every character by then.      *)
(*                                                                         *)
(* A character is [f, i]: position i of frame f (0 the address, then the  *)
(* PDU, then two CRC bytes). The CRC over the address and the body read    *)
(* is zero exactly when they are one whole frame as sent and the frame was *)
(* not corrupted; the Crc16 module checks the residual property itself.   *)
(***************************************************************************)
EXTENDS ModbusPdu, Sequences, FiniteSets

CONSTANTS
  Port,      \* "rtk" or "linux"
  Unit,      \* transaction->unit of the node
  Frames,    \* what the peer sends: [unit, len, ok]
  Addrs,     \* the values a data byte may have when read as an address
  MaxPdu,    \* MAX_PDU_SIZE, scaled down
  MaxRx,     \* bound on the calls of mb_rtu_rx
  MaxGaps,   \* bound on stalls of the peer inside a frame
  Overlap,   \* the peer may start a frame while the node transmits
  SlowNode   \* the node may be late by 3.5 characters while receiving

VARIABLES
  npc,       \* where the node's task is, named after the code
  flags,     \* rtu->flags
  tmr1,      \* the T1P5 timer runs with mb_t1p5_expired
  tmr3,      \* the T3P5 timer: "off", or started by the "hook" or by "tx"
  txbusy,    \* the UART is still emitting (rt-kernel)
  uart,      \* the characters in the serial driver's receive buffer
  sent,      \* frames the peer has begun
  pos,       \* characters of frame sent put on the bus
  pgap,      \* silence since the peer's last character
  gaps,      \* stalls so far
  wflags,    \* the flags returned by the last os_event_wait
  rxid,      \* slave_rx: its value v and the character b it was read from
  buf,       \* transaction->data[0 .. count-1]
  err,       \* 0 while frame_ok, else the error to return
  broadcast, \* rtu->broadcast
  nrx,       \* calls of mb_rtu_rx returned
  got,       \* ghost: what each call returned: [ret, frame, bc, id]
  gapped,    \* ghost: frames the peer stalled in
  clean      \* ghost: frames begun while the node waited with nothing buffered

vars == <<npc, flags, tmr1, tmr3, txbusy, uart, sent, pos, pgap, gaps,
          wflags, rxid, buf, err, broadcast, nrx, got, gapped, clean>>

NoByte == [f |-> 0, i |-> 0]

(* address, PDU and the two CRC bytes                                      *)
Chars(k) == Frames[k].len + 3

TxPhases == {"tx", "tx_empty", "tx_drain", "tx_t3p5"}
RxPhases == {"first", "id_clr", "id_take", "body_wait", "body_clr",
             "body_take", "check", "end_wait", "end_clr", "end_take", "clear"}

InFrame == sent > 0 /\ pos < Chars(sent)

Init ==
  /\ npc = "tx" /\ flags = {} /\ tmr1 = FALSE /\ tmr3 = "off"
  /\ txbusy = FALSE /\ uart = <<>>
  /\ sent = 0 /\ pos = 0 /\ pgap = 2 /\ gaps = 0
  /\ wflags = {} /\ rxid = [v |-> 0, b |-> NoByte] /\ buf = <<>> /\ err = 0
  /\ broadcast = FALSE /\ nrx = 0 /\ got = <<>> /\ gapped = {} /\ clean = {}

-----------------------------------------------------------------------------
(* Hooks and timer callbacks.                                              *)

(* Whether the T1P5 timer runs after tmr_start(t1p5_expired, ...), given  *)
(* a callback (cb) or NULL: the STM32 driver stops both timers first, the  *)
(* Linux one only starts the timers it is given.                           *)
T1p5AfterStart(cb) == cb \/ (Port = "linux" /\ tmr1)

(* A character arrives and mb_rx_hook runs: tmr_start with both callbacks *)
(* restarts both timers, T1P5 and T3P5 are cleared, RX_AVAIL is set.       *)
mb_rx_hook(c) ==
  /\ uart' = Append(uart, c)
  /\ tmr1' = T1p5AfterStart(TRUE)
  /\ tmr3' = "hook"
  /\ flags' = (flags \ {"T1P5", "T3P5"}) \cup {"RX_AVAIL"}
  /\ pgap' = 0

(* 1.5 characters of silence: the T1P5 timer, started by the hook at the  *)
(* last character, expires now if it still runs.                          *)
Elapse1p5 ==
  /\ pgap = 0
  /\ pgap' = 1
  /\ gapped' = IF InFrame THEN gapped \cup {sent} ELSE gapped
  /\ IF tmr1 THEN flags' = flags \cup {"T1P5"} ELSE UNCHANGED flags
  /\ tmr1' = FALSE
  /\ UNCHANGED <<npc, tmr3, txbusy, uart, sent, pos, gaps, wflags, rxid, buf,
                 err, broadcast, nrx, got, clean>>

(* 3.5 characters of silence: a T3P5 timer started by the hook expires.   *)
Elapse3p5 ==
  /\ pgap = 1
  /\ pgap' = 2
  /\ IF tmr3 = "hook"
     THEN flags' = flags \cup {"T3P5"} /\ tmr3' = "off"
     ELSE UNCHANGED <<flags, tmr3>>
  /\ UNCHANGED <<npc, tmr1, txbusy, uart, sent, pos, gaps, wflags, rxid, buf,
                 err, broadcast, nrx, got, gapped, clean>>

(* mb_t3p5_expired for the timer mb_rtu_tx started; a T1P5 timer running  *)
(* was started earlier and expires first.                                  *)
TxTimerExpire ==
  /\ tmr3 = "tx"
  /\ ~tmr1
  /\ tmr3' = "off"
  /\ flags' = flags \cup {"T3P5"}
  /\ UNCHANGED <<npc, tmr1, txbusy, uart, sent, pos, pgap, gaps, wflags, rxid,
                 buf, err, broadcast, nrx, got, gapped, clean>>

(* mb_tx_hook: the rt-kernel serial driver has emitted the last character. *)
mb_tx_hook ==
  /\ txbusy
  /\ txbusy' = FALSE
  /\ flags' = flags \cup {"TX_EMPTY"}
  /\ UNCHANGED <<npc, tmr1, tmr3, uart, sent, pos, pgap, gaps, wflags, rxid,
                 buf, err, broadcast, nrx, got, gapped, clean>>

-----------------------------------------------------------------------------
(* The peer.                                                               *)

(* The address character of the next frame, after 3.5 characters of      *)
(* silence (a stalled frame is abandoned).                                 *)
FrameStart ==
  /\ sent < Len(Frames)
  /\ pgap = 2
  /\ Overlap \/ npc \notin TxPhases
  /\ SlowNode \/ (npc \notin RxPhases \ {"first"} /\ uart = <<>>)
  /\ sent' = sent + 1
  /\ pos' = 1
  /\ clean' = IF npc = "first" /\ uart = <<>> THEN clean \cup {sent + 1}
              ELSE clean
  /\ mb_rx_hook([f |-> sent + 1, i |-> 0])
  /\ UNCHANGED <<npc, txbusy, gaps, wflags, rxid, buf, err, broadcast, nrx,
                 got, gapped>>

(* The next character of the frame: in time, or after a stall.            *)
NextChar ==
  /\ InFrame
  /\ pgap = 0 \/ gaps < MaxGaps
  /\ gaps' = IF pgap = 0 THEN gaps ELSE gaps + 1
  /\ pos' = pos + 1
  /\ mb_rx_hook([f |-> sent, i |-> pos])
  /\ UNCHANGED <<npc, txbusy, sent, wflags, rxid, buf, err, broadcast, nrx,
                 got, gapped, clean>>

-----------------------------------------------------------------------------
(* mb_rtu_tx. Writing the address, the PDU and the CRC leaves the UART    *)
(* emitting; the peer's characters keep arriving meanwhile.                *)
(***************************************************************************)
mb_rtu_tx ==
  /\ npc = "tx"
  /\ Overlap \/ pgap = 2
  /\ flags' = flags \ {"TX_EMPTY"}
  /\ txbusy' = (Port = "rtk")
  /\ npc' = IF Port = "rtk" THEN "tx_empty" ELSE "tx_drain"
  /\ UNCHANGED <<tmr1, tmr3, uart, sent, pos, pgap, gaps, wflags, rxid, buf,
                 err, broadcast, nrx, got, gapped, clean>>

(* Not on Linux: wait for the emission of the last character.              *)
TxEmptyWait ==
  /\ npc = "tx_empty"
  /\ "TX_EMPTY" \in flags
  /\ npc' = "tx_drain"
  /\ UNCHANGED <<flags, tmr1, tmr3, txbusy, uart, sent, pos, pgap, gaps,
                 wflags, rxid, buf, err, broadcast, nrx, got, gapped, clean>>

(* os_rtu_tx_drain, clear T1P5 and T3P5, tmr_start(NULL, mb_t3p5_expired): *)
(* the STM32 driver stops the T1P5 timer, the Linux one leaves it running. *)
TxDrain ==
  /\ npc = "tx_drain"
  /\ ~txbusy
  /\ flags' = flags \ {"T1P5", "T3P5"}
  /\ tmr1' = T1p5AfterStart(FALSE)
  /\ tmr3' = "tx"
  /\ npc' = "tx_t3p5"
  /\ UNCHANGED <<txbusy, uart, sent, pos, pgap, gaps, wflags, rxid, buf, err,
                 broadcast, nrx, got, gapped, clean>>

(* Wait for T3P5; then the task calls mb_rtu_rx.                           *)
TxT3p5Wait ==
  /\ npc = "tx_t3p5"
  /\ "T3P5" \in flags
  /\ npc' = "first"
  /\ UNCHANGED <<flags, tmr1, tmr3, txbusy, uart, sent, pos, pgap, gaps,
                 wflags, rxid, buf, err, broadcast, nrx, got, gapped, clean>>

-----------------------------------------------------------------------------
(* mb_rtu_rx.                                                              *)

(* mb_rtu_rx returns ret (id: the character read as the address); frame_ok *)
(* and count start afresh on the next call.                                *)
Return(ret, frame, id) ==
  /\ got' = Append(got, [ret |-> ret, frame |-> frame, bc |-> broadcast,
                         id |-> id])
  /\ nrx' = nrx + 1
  /\ npc' = IF nrx + 1 < MaxRx THEN "tx" ELSE "done"
  /\ buf' = <<>>
  /\ err' = 0

(* Mutant: the first wait also wakes on T3P5.                             *)
FirstWaitAnyFlag ==
  /\ npc = "first"
  /\ flags \cap {"T1P5", "RX_AVAIL", "T3P5"} # {}
  /\ npc' = "id_clr"
  /\ UNCHANGED <<flags, tmr1, tmr3, txbusy, uart, sent, pos, pgap, gaps,
                 wflags, rxid, buf, err, broadcast, nrx, got, gapped, clean>>

(* The first wait, for T1P5 or RX_AVAIL, with the caller's timeout.       *)
FirstWait ==
  /\ npc = "first"
  /\ flags \cap {"T1P5", "RX_AVAIL"} # {}
  /\ npc' = "id_clr"
  /\ UNCHANGED <<flags, tmr1, tmr3, txbusy, uart, sent, pos, pgap, gaps,
                 wflags, rxid, buf, err, broadcast, nrx, got, gapped, clean>>

FirstTimeout ==
  /\ npc = "first"
  /\ flags \cap {"T1P5", "RX_AVAIL"} = {}
  /\ Return(ETIMEOUT, 0, NoByte)
  /\ UNCHANGED <<flags, tmr1, tmr3, txbusy, uart, sent, pos, pgap, gaps,
                 wflags, rxid, broadcast, gapped, clean>>

(* mb_rtu_read, first half: clear RX_AVAIL.                                *)
ReadClr(from, to) ==
  /\ npc = from
  /\ flags' = flags \ {"RX_AVAIL"}
  /\ npc' = to
  /\ UNCHANGED <<tmr1, tmr3, txbusy, uart, sent, pos, pgap, gaps, wflags,
                 rxid, buf, broadcast, nrx, got, gapped, clean>>

(* mb_rtu_read, second half: navail characters, at most size, are read;   *)
(* RX_AVAIL is set again when more remain.                                 *)
Taken(size) == SubSeq(uart, 1, IF Len(uart) < size THEN Len(uart) ELSE size)

ReadTake(size) ==
  /\ uart' = SubSeq(uart, Len(Taken(size)) + 1, Len(uart))
  /\ flags' = IF Len(uart) > size THEN flags \cup {"RX_AVAIL"} ELSE flags

(* Get slave ID: one character; when none is buffered (woken by T1P5)     *)
(* nothing is read and slave_rx keeps whatever the stack held.             *)
IdTake ==
  /\ npc = "id_take"
  /\ ReadTake(1)
  /\ IF uart = <<>>
     THEN \E v \in Addrs : rxid' = [v |-> v, b |-> NoByte]
     ELSE LET c == Head(uart)
          IN  IF c.i = 0 THEN rxid' = [v |-> Frames[c.f].unit, b |-> c]
              ELSE \E v \in Addrs : rxid' = [v |-> v, b |-> c]
  /\ npc' = "body_wait"
  /\ UNCHANGED <<tmr1, tmr3, txbusy, sent, pos, pgap, gaps, wflags, buf, err,
                 broadcast, nrx, got, gapped, clean>>

(* The body loop: wait for T1P5 or RX_AVAIL, read what is there into the  *)
(* rest of the buffer, until the wait returned T1P5.                       *)
BodyWait ==
  /\ npc = "body_wait"
  /\ flags \cap {"T1P5", "RX_AVAIL"} # {}
  /\ wflags' = flags \cap {"T1P5", "RX_AVAIL"}
  /\ npc' = IF "RX_AVAIL" \in wflags' THEN "body_clr" ELSE "check"
  /\ UNCHANGED <<flags, tmr1, tmr3, txbusy, uart, sent, pos, pgap, gaps, rxid,
                 buf, err, broadcast, nrx, got, gapped, clean>>

(* Mutant: one character less is read than there is room for.             *)
BodyTakeShort ==
  /\ npc = "body_take"
  /\ ReadTake(MaxPdu - Len(buf) - 1)
  /\ buf' = buf \o Taken(MaxPdu - Len(buf) - 1)
  /\ npc' = IF "T1P5" \in wflags THEN "check" ELSE "body_wait"
  /\ UNCHANGED <<tmr1, tmr3, txbusy, sent, pos, pgap, gaps, wflags, rxid, err,
                 broadcast, nrx, got, gapped, clean>>

(* Mutant: the read is allowed one character past the end of rx_buffer.  *)
BodyTakePastBuffer ==
  /\ npc = "body_take"
  /\ ReadTake(MaxPdu - Len(buf) + 1)
  /\ buf' = buf \o Taken(MaxPdu - Len(buf) + 1)
  /\ npc' = IF "T1P5" \in wflags THEN "check" ELSE "body_wait"
  /\ UNCHANGED <<tmr1, tmr3, txbusy, sent, pos, pgap, gaps, wflags, rxid, err,
                 broadcast, nrx, got, gapped, clean>>

BodyTake ==
  /\ npc = "body_take"
  /\ ReadTake(MaxPdu - Len(buf))
  /\ buf' = buf \o Taken(MaxPdu - Len(buf))
  /\ npc' = IF "T1P5" \in wflags THEN "check" ELSE "body_wait"
  /\ UNCHANGED <<tmr1, tmr3, txbusy, sent, pos, pgap, gaps, wflags, rxid, err,
                 broadcast, nrx, got, gapped, clean>>

(* crc(slave_rx) then crc(data, count) is zero: the characters read are   *)
(* one whole uncorrupted frame.                                            *)
CrcOk ==
  /\ rxid.b # NoByte
  /\ rxid.b.i = 0
  /\ Frames[rxid.b.f].ok
  /\ buf = [j \in 1..Chars(rxid.b.f) - 1 |-> [f |-> rxid.b.f, i |-> j]]

(* Mutant: the station id is not matched.                                 *)
RtuCheckAnyUnit ==
  /\ npc = "check"
  /\ err' = IF ~CrcOk THEN ECRC_FAIL ELSE err
  /\ broadcast' = (rxid.v = 0)
  /\ npc' = "end_wait"
  /\ UNCHANGED <<flags, tmr1, tmr3, txbusy, uart, sent, pos, pgap, gaps,
                 wflags, rxid, buf, nrx, got, gapped, clean>>

(* Verify the CRC, then the station id (its error wins), then set the     *)
(* broadcast flag.                                                         *)
RtuCheck ==
  /\ npc = "check"
  /\ err' = IF rxid.v # Unit /\ rxid.v # 0 THEN ESLAVE_ID
            ELSE IF ~CrcOk THEN ECRC_FAIL
            ELSE err
  /\ broadcast' = (rxid.v = 0)
  /\ npc' = "end_wait"
  /\ UNCHANGED <<flags, tmr1, tmr3, txbusy, uart, sent, pos, pgap, gaps,
                 wflags, rxid, buf, nrx, got, gapped, clean>>

(* Mutant: the end-of-frame wait waits for T1P5 instead of T3P5; the loop *)
(* still ends on T3P5.                                                     *)
EndWaitOnT1p5 ==
  /\ npc = "end_wait"
  /\ flags \cap {"T1P5", "RX_AVAIL"} # {}
  /\ wflags' = flags \cap {"T1P5", "RX_AVAIL"}
  /\ npc' = CASE "RX_AVAIL" \in wflags' -> "end_clr"
               [] "T3P5" \in wflags' -> "clear"
               [] OTHER -> "end_wait"
  /\ UNCHANGED <<flags, tmr1, tmr3, txbusy, uart, sent, pos, pgap, gaps, rxid,
                 buf, err, broadcast, nrx, got, gapped, clean>>

(* Wait for the end of the frame: T3P5 or more characters.                 *)
EndWait ==
  /\ npc = "end_wait"
  /\ flags \cap {"T3P5", "RX_AVAIL"} # {}
  /\ wflags' = flags \cap {"T3P5", "RX_AVAIL"}
  /\ npc' = IF "RX_AVAIL" \in wflags' THEN "end_clr" ELSE "clear"
  /\ UNCHANGED <<flags, tmr1, tmr3, txbusy, uart, sent, pos, pgap, gaps, rxid,
                 buf, err, broadcast, nrx, got, gapped, clean>>

(* Characters after the frame: EFRAME_NOK, and they are read over the end *)
(* of the buffer without being counted.                                    *)
EndClr ==
  /\ ReadClr("end_clr", "end_take")
  /\ err' = EFRAME_NOK

EndTake ==
  /\ npc = "end_take"
  /\ ReadTake(MaxPdu - Len(buf))
  /\ npc' = IF "T3P5" \in wflags THEN "clear" ELSE "end_wait"
  /\ UNCHANGED <<tmr1, tmr3, txbusy, sent, pos, pgap, gaps, wflags, rxid, buf,
                 err, broadcast, nrx, got, gapped, clean>>

(* Mutant: the CRC is not subtracted from count.                          *)
RxClearKeepsCrc ==
  /\ npc = "clear"
  /\ flags' = flags \ {"T1P5", "T3P5", "RX_AVAIL"}
  /\ IF err # 0 THEN Return(err, 0, rxid.b)
     ELSE Return(Len(buf), rxid.b.f, rxid.b)
  /\ UNCHANGED <<tmr1, tmr3, txbusy, uart, sent, pos, pgap, gaps, wflags,
                 rxid, broadcast, gapped, clean>>

(* Clear all three flags and return the error, or count minus the CRC.    *)
RxClear ==
  /\ npc = "clear"
  /\ flags' = flags \ {"T1P5", "T3P5", "RX_AVAIL"}
  /\ IF err # 0 THEN Return(err, 0, rxid.b)
     ELSE Return(Len(buf) - 2, rxid.b.f, rxid.b)
  /\ UNCHANGED <<tmr1, tmr3, txbusy, uart, sent, pos, pgap, gaps, wflags,
                 rxid, broadcast, gapped, clean>>

-----------------------------------------------------------------------------
Node ==
  \/ mb_rtu_tx \/ TxEmptyWait \/ TxDrain \/ TxT3p5Wait
  \/ FirstWait \/ FirstTimeout
  \/ ReadClr("id_clr", "id_take") /\ UNCHANGED err
  \/ IdTake \/ BodyWait
  \/ ReadClr("body_clr", "body_take") /\ UNCHANGED err
  \/ BodyTake
  \/ RtuCheck \/ EndWait \/ EndClr \/ EndTake \/ RxClear

Hardware == Elapse1p5 \/ Elapse3p5 \/ TxTimerExpire \/ mb_tx_hook

Peer == FrameStart \/ NextChar

(* The task has made its last call.                                        *)
Finished == npc = "done" /\ UNCHANGED vars

Next == Node \/ Hardware \/ Peer \/ Finished

(* The task runs whenever it is ready and the timers and the UART work;   *)
(* the peer need not send anything.                                        *)
Fairness ==
  /\ WF_vars(Node)
  /\ WF_vars(Elapse1p5) /\ WF_vars(Elapse3p5) /\ WF_vars(TxTimerExpire)
  /\ WF_vars(mb_tx_hook)

Spec == Init /\ [][Next]_vars /\ Fairness

====
