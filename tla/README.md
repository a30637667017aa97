# TLA+ models of rtlabs m-bus

This directory has TLA+ models of the Modbus master and slave engines in
`src/src` and the TLC configurations that check them. Paths below are
relative to the repository root.

## The system

| Part | Source | State | Operations |
|---|---|---|---|
| PDU layer | `mb_pdu.h`, `mb_error.h` | `pdu_t` union, codes, limits | none (data) |
| Slave handlers | `mb_slave.c` 70-393 | the I/O tables (callbacks) | read/write bits and registers, read/write, diagnostics, vendor |
| Slave engine | `mb_slave.c` 395-582 | one transaction buffer, slave id, running flag | receive, dispatch, exception encoding, stale-response suppression, broadcast suppression, transmit; the bring-up loop |
| Master engine | `mbus.c` | `transaction` (id, unit), scratch buffer, timeout | read, write, write_single, loopback, send_msg, get_msg, connect/disconnect |
| Transport layer | `mb_transport.c` | none | indirection to the framer's bringup/shutdown/is_down/tx/rx/rx_is_bc/rx_avail |
| RTU framer | `mb_rtu.c` | event flags TX_EMPTY, RX_AVAIL, T1P5, T3P5; broadcast flag | tx (address, PDU, CRC, wait T3P5), rx (first wait, body until T1P5, checks, end of frame until T3P5), hooks and timer callbacks |
| TCP framer | `mb_tcp.c` | MBAP buffer, is_down | bringup, shutdown, tx, rx (wait, header, body clamped to MAX_PDU_SIZE) |
| CRC | `mb_crc.h` (prototype only; the spec, 4.1) | none | crc-16 |
| Ports | `ports/*` | OS handles | serial, socket, timer I/O; rt-kernel driver with a mutex per bus |

How they interact: the application calls the master engine (one call at a
time: the rt-kernel driver `mb_master.c` takes a mutex around each call). A
call builds the request in the scratch buffer, sends it through the
transport, and, unless it is a write to unit 0, receives into the same
buffer until a frame arrives or the timeout expires. The slave task loops
in `mb_slave_handle_request`: receive with a 5000-tick timeout, dispatch to
a handler that builds the response in place, then, if a new message is
already available (RTU only), drop the reply and read the message away;
else, unless the request was a broadcast (RTU only), transmit the reply.

The hard behaviours: the master and the slave run concurrently and share
only the frames on the wire; the master times out and moves on while the
slave may still answer; RTU frames can be corrupted or run together; responses are built
in place in a fixed buffer and decoded into a caller's buffer.

## Modules

- `ModbusPdu` - the PDU layer as pure operators. A PDU is a record of the
  fields at the byte offsets of `pdu_t` (function, address, quantity, write
  address/quantity of read/write, byte count or exception code, length).
  Each slave handler is an operator with the handler's early returns as an
  IF chain, returning `[ret, wrote, pdu]` (the handler's result, whether the
  set callback was called, the buffer after). `Dispatch` is the switch of
  `mb_slave_handle_request` (reads skipped on broadcast), `Respond` its
  exception encoding. For the master: `CallAccepted` (the local early
  returns of the four calls), `Request` (the request PDU), `AwaitsResponse`,
  `mb_exception`, and `Decode` (result and bytes copied into the caller's
  buffer). Register and coil values are abstracted away.
- `ModbusMaster` - the master engine over a frame-level transport.
  Variables: `mpc` (idle, or blocked in `mb_pdu_rx`), `mcall`, `tid` and
  `munit` (the `transaction` fields), `ncalls`, and the ghost `outcome`
  (what each call returned). Actions: `MasterCall` (a whole `mbus_*` call up
  to the receive, or the whole call for a local failure or a broadcast
  write), `MasterSendMsg` (`mbus_send_msg`: send the raw message, return
  0), `MasterGetMsg` (`mbus_get_msg`: receive into the caller's `msg`,
  the size it gives unused), `MasterRecv` (the receive and the decoding;
  a `get_msg` returns `rx_count` with the PDU copied whole),
  `MasterRecvMerged` (RTU: two buffered frames read as one, CRC fails),
  `MasterTimeout`. The ghost `RequestOf` names the request a call awaits
  the answer to: its own, or for a `get_msg` the last one sent.
- `ModbusSlave` - the slave engine. Variables: `spc`, `sreq` (the frame
  being handled), `sresp` (the built response), `sbc` (`rtu->broadcast`),
  ghosts `executed` (what the handler did for each request) and `drained`.
  Actions: `SlaveRx` (receive, framer checks, dispatch with nondeterministic
  callback results, exception encoding), `SlaveDrain` (stale-response
  suppression), `SlaveReply` (broadcast suppression or transmit).
- `ModbusLink` - one master and one slave composed by `INSTANCE` over the
  two frame channels `toSlave` and `toMaster` (sequences: the wire and the
  socket keep order). Adds `Corrupt` (RTU noise, at most `MaxFaults`
  frames) and the variable `slow`, chosen in `Init` among `SlowSlaves`
  and never changed: whether the slave may answer after the master's
  timeout. `Transport` is likewise a variable
  chosen in `Init` among `Transports` (the `mb_rtu_init` or `mb_tcp_init`
  the application was built with), so one run checks both transports; over
  TCP the application makes only the calls of `TcpCalls`, and after a
  `send_msg` it makes the `get_msg` that fetches the answer (`AppCalls`). `ModbusSlave`
  models the transport's `rx_is_bc` and `rx_avail` as the dispatch of
  `mb_transport.c` on `Transport` to `mb_rtu_rx_bc`/`mb_rtu_rx_avail` or
  the constant FALSE of `mb_tcp_rx_is_bc`/`mb_tcp_rx_avail`.
- `RtuConfig` - the RTU configuration code as pure operators:
  `mb_rtu_bringup` (the slave id parsed digit by digit from the device
  name, with the `uint8_t` wrap of `*p - '0'`, as the recursive
  `BringupDigits`), `mb_rtu_char_time`, `mb_rtu_serial_cfg` (T1P5 and T3P5
  in microseconds, integer arithmetic as in C), and the Linux port's
  `os_rtu_set_serial_cfg` (the speed the UART really runs at, 19200 for a
  rate its switch does not list). Reference definitions: `UnitOfName` (a
  name of decimal digits denoting 0..247) and `CharDuration` (the time of
  an 11-bit character, rounded up).
- `Crc16` - `mb_crc`, the CRC-16 of Modbus RTU (reflected polynomial
  0xA001, preload chained by the caller). Only its prototype is in the
  repository, so it is written from the spec (4.1): `CrcShift` is one bit
  of the shift register, `CrcTable` the eight shifts of each byte
  (computed once), `CrcByte` one byte and the recursive `mb_crc` a buffer.
- `RtuWire` - the bytes `mb_rtu.c` puts on and takes off the line, over
  `Crc16`: `TxBytes` is the frame `mb_rtu_tx` writes (address, PDU, the
  CRC chained over both, low byte first as on the little-endian ports),
  `RxResult` what `mb_rtu_rx` returns for a frame received whole (the
  station id check, the CRC check, and `count - sizeof (crc_t)` computed in
  `size_t`), and `WriteLoop`/`mb_rtu_write` the loop that writes a buffer
  through `os_rtu_write`, given the run of values the successive writes
  return, with the `size_t` arithmetic of a negative result. `RtuFramer`
  abstracts the CRC to `CrcOk`; `RxAcceptsSentFrame` is what justifies
  that abstraction.
- `MasterDriver` - the rt-kernel master driver (`ports/rt-kernel/
  mb_master.c`) with its shell commands (`mb_cmds.c`) over one TCP
  transport. Each thread of `Threads` runs one command: `_cmd_mb_read` or
  `_cmd_mb_write` (register check), `mb_tcp_bringup` (the `_mb_open` of the
  stream: a new socket, or failure), `mb_read`/`mb_write` (the call under
  the driver mutex, abstracted to its effect on the socket through
  `Exchange`), and `mb_close` (`_mb_close`, that is `mb_tcp_shutdown` with
  the stream's socket). Variables: `pc`, `cmd`, `arg` (the stream's
  socket), `sock` and `peer_up` per socket, `nsock`, and the transport's one
  `is_down`. `PeerClose` is the slave closing its end.
- `RtuChannel` - the abstract RTU framer: what `mb_rtu_rx` promises its
  caller over whole frames (spec 4.5). A peer sends the frames of `Frames`;
  each return is an error or the PDU length of a frame sent intact to this
  unit or to all, with the right broadcast flag, at most once and in order.
- `RtuFramer` - the RTU framer at the level of characters, event flags and
  timers (`mb_rtu.c`, with the timer semantics of both ports). Variables:
  `npc` (where the task is in `mb_rtu_tx`/`mb_rtu_rx`: one value per wait,
  per flag clear and per read), `flags` (the event group), `tmr1`/`tmr3`
  (the running timers; `tmr3` is "hook" when started by `mb_rx_hook`, "tx"
  when started by `mb_rtu_tx`), `txbusy` (UART still sending), `uart`
  (characters in the driver's buffer), `buf`, `rxid`, `err`, `broadcast`.
  The peer's state is `sent`, `pos` and `pgap`, the silence since its last
  character in character times (under 1.5, under 3.5, 3.5 or more). A
  character is `[f, i]`: character `i` of frame `f`, `i = 0` being the
  address; `CrcOk` holds when the characters read are exactly one whole
  intact frame (the CRC itself is abstracted). Actions: `mb_rx_hook`,
  `mb_tx_hook`, `Elapse1p5`/`Elapse3p5` (the timer callbacks),
  `TxTimerExpire`; the node steps `mb_rtu_tx`, `TxEmptyWait`, `TxDrain`,
  `TxT3p5Wait`, `FirstWait`, `FirstTimeout`, `ReadClr`, `IdTake`,
  `BodyWait`, `BodyTake`, `RtuCheck`, `EndWait`, `EndClr`, `EndTake`,
  `RxClear`; the peer steps `FrameStart` and `NextChar`. The constant
  `Port` selects `mb_tmr_start`: on rt-kernel it stops both timers before
  starting those given a callback, on Linux a timer given none keeps
  running. `MaxGaps` allows stalls of 1.5 characters inside a frame,
  `Overlap` lets frames start during the node's transmission and
  `SlowNode` lets the next frame start before the task has finished
  reading the current one.
- `MC_RtuFramer` - its instances and properties; `ChannelSpec` is
  `RtuChannel!Spec` under the refinement mapping that forgets the ghost
  field `id` of each return.
- `TcpChannel` - the abstract TCP framer: on each connection the peer
  sends the messages of `Msgs`; a return of `mb_tcp_rx` either consumes the
  next message of the connection whole (its PDU length, or `FRAME_NOK` for a
  protocol field other than 0) or reports the connection lost.
- `TcpFramer` - `mb_tcp.c` over the Linux socket calls of `mbal_tcp.c`.
  Variables: `is_server` (`transport->is_server`), `npc`, `running`,
  `is_down`, `fd` (the socket `transaction->arg` names: none, open or
  closed), `arg`, `need`/`hdr`/`body` (the `os_tcp_recv` loop and what it
  has read), and the peer's stream `inq`, `fin`, `pm`/`pi`. Bytes are tokens
  `[m, i]`, so a header or body made of bytes of the wrong message is seen
  as such; a header read from bytes that are not one yields any length in
  `GarbageLens`. Actions: `SlaveLoop`, `SlaveBringup`, `SlaveShutdown` (the
  `mb_slave` task), `AppConnect`, `AppCall`, `AppDisconnect` (the master
  application through `mbus_connect`, a call, `mbus_disconnect`), `TcpTx`,
  `RecvWait`, `RecvTake` (one `recv`), `RecvShort` (end of stream, or the
  accepted socket's `SO_RCVTIMEO`), `RecvHeader`, `RecvBody`, and the peer's
  `PeerSend` (the next bytes of its message, any number) and `PeerClose`.
- `MC_TcpFramer` - its instance and properties, with `ChannelSpec` =
  `TcpChannel!Spec` under the mapping `sent <- pm - 1`.
- `MC_ModbusPdu`, `MC_ModbusLink`, `MC_MasterDriver` - the instances for
  TLC and the properties. `MC_ModbusPdu` also checks `RtuConfig` and
  `RtuWire`: each initial state is one input (a PDU call, an RTU
  configuration, a sent and a received frame, or a buffer and a run of
  write results), the other variables at fixed defaults, so every input is
  checked on its own.

A frame is `[unit, id, pdu, tag, ok]`: the RTU address or MBAP unit id, the
MBAP transaction id, the PDU, a ghost tag naming the master call the frame
belongs to, and whether its CRC is intact. The framers are modelled by what
they do with a whole frame: `mb_rtu_rx` checks the CRC and then the unit
(the unit error wins), sets the broadcast flag from the address in any case,
and `mb_rtu_rx_avail` reports buffered bytes; `mb_tcp_rx` accepts any unit,
copies the MBAP id and unit into the transaction, and the TCP `rx_is_bc` and
`rx_avail` are FALSE.

## Runs

| Run | Cfg | Expect | What it shows |
|---|---|---|---|
| pdu | `MC_ModbusPdu.cfg` | pass | For every function and the quantities 0, 1, 7-9, 120-126, 1967-1969, 2000, 2001 and offsets 0, 1, 65535, the slave's responses fit `MAX_PDU_SIZE` and `mbus_read` copies no more than the caller's buffer for the slave's own answer; `mb_rtu_bringup` gives exactly the unit a name of up to 3 characters denotes (`BringupNamesUnit`); for every rate from 1 to 11 000 000 baud around the thresholds, a character on the line the Linux port really sets up is shorter than T1P5, which is shorter than T3P5 (`TimersFitLine`); over real bytes and the CRC-16, `mb_rtu_rx` returns a PDU length or one of its errors for every frame of 1 or 2 bytes (`RxReturnsLengthOrError`: the `count - 2` underflow is unreachable because FF FF, the only such frame with CRC residual 0, fails the station id check for units up to 254), and accepts every frame `mb_rtu_tx` sent to it or to all but refuses it with any one byte hit by one of 11 error masks (`RxAcceptsSentFrame`); for every run of up to 4 results of the `O_NONBLOCK` `write(2)` among -1, 0 and 1 to 3 bytes on a 1- to 4-byte buffer, `mb_rtu_write` never sends a byte past the buffer's end, and when no result is -1 sends the buffer's start once and in order, all of it when every result is positive (`WriteEmitsBuffer`; a -1 sends the byte before the buffer, see below); on tables of 0, 1, 8, 125 and 65536 entries with callbacks that succeed or fail, at addresses 0, 1 and 65535, every handler refuses a request beyond the quantity limits or the table with `ILLEGAL_DATA_VALUE` or `ILLEGAL_DATA_ADDRESS` (the first for a bad quantity alone, the second for a bad range alone) and writes nothing, read/write registers included (`HandlerRejectsBeforeWriting`, spec 8). |
| link | `MC_ModbusLink.cfg` | pass | RTU or TCP and a fast or slow slave chosen at the start; on RTU one corrupted frame, a broadcast write, an absent unit and a raw `send_msg`/`get_msg` exchange. With a slave within the timeout every decoded reply answers the call's own request, or for `get_msg` the message sent before it (`ReplyMatchesRequest`); fast or slow, every call that decoded the answer it awaited returns the slave's result, `get_msg` the length of the slave's response (`ResultMatchesSlave`); late replies, merged frames and drains happen and a broadcast is still never answered (`BroadcastNeverAnswered`). |
| rtu_late_overflow | `MC_ModbusLink_rtu_late_overflow.cfg` | violation | A late 4-byte register reply decoded by an 8-coil read writes 4 bytes into a 1-byte buffer. |
| get_msg_overflow | `MC_ModbusLink_get_msg_overflow.cfg` | violation | `mbus_get_msg` ignores its size: the 6-byte answer to a raw read of 2 registers fetched into a 2-byte `msg` is written whole (`GetMsgWithinBuffer`). |
| rtu_broadcast_drain | `MC_ModbusLink_rtu_broadcast_drain.cfg` | violation | A request sent right after a broadcast is drained as stale although the master never timed out. |
| rtu_framer | `MC_RtuFramer.cfg` | pass | Linux port, no stalls, no frame during a transmission, a task that keeps up, four frames (to this unit, to another, corrupted, broadcast): `mb_rtu_rx` refines `RtuChannel`, returns every intact frame for it that fits, and every call returns. |
| rtu_framer_faults | `MC_RtuFramer_faults.cfg` | pass | rt-kernel port with a stall inside a frame, frames during transmission and a slow task: frames are lost, but nothing returned is wrong, the buffer never overflows, and `slave_rx` is never used uninitialised. |
| tcp_framer | `MC_TcpFramer.cfg` | pass | Both roles (`is_server` chosen at the start) against a peer that sends in pieces, stalls, closes, and sends the largest PDU, a bad protocol field and an empty PDU: `mb_tcp_rx` refines `TcpChannel`, the slave task never closes a socket twice, and `mb_slave_shutdown` always stops the task. |
| tcp_framer_double_close | `MC_TcpFramer_double_close.cfg` | violation | On the master side, after the peer closes, the failing send and then the failing select of the same call each close the socket, and every later call closes it twice more. |
| rtu_framer_hang | `MC_RtuFramer_hang.cfg` | violation | A character that arrives between two calls has its T1P5 fire before `mb_rtu_tx` clears the flag; the next `mb_rtu_rx` then waits forever in the body loop. |
| rtu_framer_largest | `MC_RtuFramer_largest.cfg` | violation | A PDU of `MAX_PDU_SIZE - 1` bytes does not fit in the receive buffer with its CRC and is lost. |
| driver_shared_down | `MC_MasterDriver.cfg` | violation | Two shell commands with streams open at once on the TCP bus: the first `mb_close` marks the shared transport down, so the second `mb_close` leaves its socket open (`StreamClosed` fails). |

The violations are recorded as findings in `PROJECT.json`. Five more
disagreements met while modelling are kept as hazards there rather than as
runs:
- the master accepts quantity 0, which the slave rejects (`mbus.c` 77);
- on TCP a late reply is taken as the next call's answer, as on RTU, although
  the comment of `mb_tcp_rx_avail` says the transaction id tells replies
  apart (`mbus.c` 117; shown on RTU by `rtu_late_overflow`);
- a vendor callback returning 0 ("no response") still gets an empty PDU
  transmitted (`mb_slave.c` 504);
- read/write registers on a table without a set callback answers
  `ILLEGAL_FUNCTION` to a read quantity of 0 or above 125, where spec 8
  says `ILLEGAL_DATA_VALUE`: the set check comes before the read part's
  (`mb_slave.c` 318), so `HandlerRejectsBeforeWriting` is stated for
  tables whose callbacks are present;
- the RTU framer reports a good frame `EFRAME_NOK` when the next frame
  begins, 3.5 characters or more after it, before the task reaches its
  end-of-frame wait (`mb_rtu.c` 82/325; `FrameDelivered` fails with
  `SlowNode = TRUE`).

Each passing property has a mutant (a plausible bug in one mapped
definition) that TLC shows violates it: a register-read limit of 126, an
inclusive register-copy loop, an exception PDU whose length is not set, unicast
writes that do not wait for the reply, swapped exception codes, and a missing
broadcast check; for the framer a body read one character short, a unit check that
accepts any address, an end-of-frame wait that also ends on T1P5, a
length that keeps the CRC, a read one character past the buffer and a
first wait that ends on any flag; for the TCP framer a body size that counts
the unit id, a close that leaves the transport up, and an accepted socket
without a receive timeout; for the RTU configuration a unit range check
that admits 248 and a fixed 500 us character time from 1200 baud up (the
T1P5 of 750 us is then shorter than a character at 9600 baud); for the RTU
wire a CRC sent high byte first, a receiver that skips the station id
check, and a write loop that does not advance its pointer after a partial
write; for the handlers a read/write that performs the write before
checking the read part.

## Bounds and why they are enough

- PDU model: the quantities are every limit of both engines and its
  neighbours (requests above the limits are rejected before any 8-bit
  byte count could wrap); the offsets
  cover the wrap of `(address - 1) & 0xFFFF`. All 751 128 combinations of
  call, request and vendor result are checked.
- Link model: 3 calls over 8 call kinds (a 1-byte and a 4-byte read, an
  exception-producing write, a broadcast write, a read of an absent unit,
  a broadcast read the master rejects locally, a raw send of a register
  read and a full-size `get_msg`); TCP uses the five unicast kinds. The
  overflow run needs only 2 calls: a raw send and a 2-byte `get_msg`.
  Three calls are enough for every two-call interaction (a late reply, a
  drain, a broadcast followed by a request) with one more call after it; one
  corrupted frame covers each CRC error path. The channels never hold more
  than `MaxCalls` frames.

- RTU framer: `MAX_PDU_SIZE` is scaled to 4, so PDUs of 1 and 2 bytes fit
  with their CRC and one of 3 bytes (`MAX_PDU_SIZE - 1`, the largest the spec
  allows) does not, as at full size. Four frames cover each branch of the
  checks (good, other unit, CRC error, broadcast); two frames with a stall and
  overlaps cover the noise paths. Up to 4 calls of `mb_rtu_rx` are
  enough for each frame to meet a call at each of its phases.
- TCP framer: the header is scaled to 2 bytes and `MAX_PDU_SIZE` to 2, so
  each can arrive in pieces; four messages (a short one, the largest PDU, a
  bad protocol field, an empty PDU) on each of 2 connections, and 2 master
  calls, reach every branch of `mb_tcp_rx`, a connection lost in each
  phase, and a second connection after the first is lost.

- RTU configuration: every name of up to 3 characters over digits around
  247 and the characters just outside '0'..'9' (space, '/', ':'), which is
  every branch of the parse; the rates are the Linux table's neighbours
  and the two thresholds of `mb_rtu_char_time` (19200, 19201) and the
  extremes. A name of 10 digits, whose 32-bit sum wraps, is out of reach of
  the enumeration and is a hazard.
- Handler input: every request of the PDU run at addresses 0, 1 and 65535
  (both halves of a read/write), on tables of 0, 1, 8, 125 and 65536
  entries: quantities 7-9 straddle the table of 8, 120-126 the one of 125,
  65535 wraps nothing but reaches past every table; callbacks return 0,
  `ILLEGAL_DATA_ADDRESS` or `SLAVE_DEVICE_FAILURE`.
- RTU wire: frames to units 0, 1 and 2 with PDUs of 1 and 2 bytes over
  0, 1, 0x55, 0xA5, 0xFF, each received whole or with one byte xored with
  one of 11 masks (every single-bit error and three multi-bit ones), and
  all 65 792 byte sequences of length 1 and 2 as noise; the receiver is
  unit 1. Write runs: buffers of 1 to 4 bytes and every sequence of up to
  4 results in 1..3, which covers the whole buffer in one write, every
  split of it, and a run that ends before the buffer does.
- Master driver: 2 threads, registers below, at and above the table limit
  0x4FFFF and in each table, and 2 sockets: two streams open at once is
  the smallest case in which they share `is_down`.

## Timing and fairness

The link model checks only safety, so no fairness is assumed there. `slow =
FALSE` is a timing assumption, not fairness: the master's timeout (the
`timeout` of `mbus_cfg_t`) exceeds the slave's response time, so the
timeout fires only on a call whose request the slave dropped or never got.
Behaviours with `slow = TRUE` drop that assumption; the properties that
rest on it say so (`ReplyMatchesRequest` holds for `~slow`). `Finished` is the
idle state after the last call; other deadlocks are checked.

The RTU framer is checked for liveness (`RxReturns`, every call of
`mb_rtu_rx` returns) under weak fairness of the node task (a thread that is
ready runs: the OS schedules it) and of each timer and the UART's transmit
interrupt (a started hardware or OS timer expires, a started transmission
completes). The peer gets no fairness: it may stop sending at any point,
which is how a bus behaves. `Finished` is the state after the last call;
the faults run does not check deadlock because the hang found by
`rtu_framer_hang` is such a deadlock.

The TCP framer checks `SlaveStops` (after `mb_slave_shutdown` the task
ends) under weak fairness of the node's steps: the slave task is a thread
the OS schedules, and each of its waits (the accept, the select, the recv
of the accepted socket) has a timeout, so a step is always enabled for it.

## Not modelled, and the plan

- RTU framer, the rest: the trivial `shutdown` and `is_down`. What a
  failing `write(2)` puts on the line is bounded but not pinned down by
  `WriteEmitsBuffer`: `os_rtu_open` opens the port `O_NONBLOCK`, so
  `write(2)` may return -1, and the `size_t` result is never `<= 0`;
  `mb_rtu_write` then steps back one byte and sends the byte before the
  buffer (`wlen = 1`, `wres = <<-1, 2>>`), and on the Windows port, whose
  `os_rtu_write` always returns -1, the loop never ends. This is listed as
  a hazard of `mb_rtu.c` 145; no run slot is left for it as a violation.
- `os_tcp_send` is modelled as one step that never blocks. The loop of
  `mbal_tcp.c` 229-250 sets no `SO_SNDTIMEO`, so a peer that stops reading
  could hold it in `send` once the socket buffer is full; in the TCP runs the
  node sends at most `MaxCalls` (2) messages, each in the code at most a
  7-byte MBAP header and `MAX_PDU_SIZE` bytes, far below any socket send
  buffer, so within these bounds `send` never blocks and the step is
  exact.
- TCP framer: length fields of 0 or above `MAX_PDU_SIZE + 1` (the clamp
  keeps the buffer safe but the stream loses its framing, which the spec
  accepts), descriptor numbers (and so the reuse of a closed number), and
  `SIGPIPE`.
- The driver's `mb_send_msg`, `mb_get_msg`, `mb_write_single` and
  `mb_loopback`, which are the same mutex wrapper around calls the master
  model has, and `mb_slave_id_set`.
- Linux `os_rtu_tx_drain` waits one character at 115200 baud whatever the
  speed; `RtuFramer` treats the end of `write` as the end of emission on
  Linux.
- OS ports, samples and tests: I/O wrappers and applications without
  protocol logic of their own.
