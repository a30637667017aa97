---------------------------- MODULE MasterDriver ----------------------------
(***************************************************************************)
(* The rt-kernel master device driver (ports/rt-kernel/mb_master.c) over   *)
(* one TCP transport (mb_tcp.c), driven by the shell commands of          *)
(* mb_cmds.c. Each shell thread runs one command: check the register,      *)
(* mb_open the stream "/modbus1/<ip>" (the driver's _mb_open brings the    *)
(* transport up: os_tcp_connect opens a new socket, returned as the        *)
(* stream's argument), mb_read or mb_write it under the driver mutex, and  *)
(* mb_close it (_mb_close shuts the transport down with that socket).      *)
(*                                                                         *)
(* Every open stream has its own socket, but they share the one mb_tcp_t   *)
(* and its is_down flag. Sockets are numbered in the order they are made;  *)
(* descriptor reuse is not modelled. The exchange of a call is abstracted  *)
(* to its effect on the socket: with the peer still connected the socket   *)
(* stays open (a reply, an exception or a timeout); once the peer has      *)
(* closed, the failed send or short recv of mb_tcp_tx / mb_tcp_rx closes   *)
(* the socket and marks the transport down.                                *)
(***************************************************************************)
EXTENDS ModbusPdu, FiniteSets

CONSTANTS
  Threads,     \* shell threads, one command each
  Regs,        \* register arguments given to mb_read / mb_write
  MaxSockets   \* bound on the sockets os_tcp_connect makes

VARIABLES
  pc,          \* per thread: "start", "open", "call", "close", "done"
  cmd,         \* per thread: [kind |-> "read" or "write", reg]
  arg,         \* per thread: the stream's argument (the socket), 0 if none
  sock,        \* per socket: "open" or "closed"
  peer_up,     \* per socket: the peer has not closed its end
  nsock,       \* sockets made so far
  is_down      \* mb_tcp->is_down, shared by every stream of the transport

vars == <<pc, cmd, arg, sock, peer_up, nsock, is_down>>

Sockets == 1..MaxSockets

(* The commands a shell thread may run.                                    *)
Commands == [kind : {"read", "write"}, reg : Regs]

(* mb_master_init with mb_tcp_init: no socket yet, the transport down.     *)
Init ==
  /\ pc = [t \in Threads |-> "start"]
  /\ cmd \in [Threads -> Commands]
  /\ arg = [t \in Threads |-> 0]
  /\ sock = [s \in Sockets |-> "closed"]
  /\ peer_up = [s \in Sockets |-> FALSE]
  /\ nsock = 0
  /\ is_down = TRUE

(* _cmd_mb_read: a register past 0x4FFFF is refused before the stream is  *)
(* opened ("Bad register").                                                *)
_cmd_mb_read(t) ==
  /\ pc[t] = "start" /\ cmd[t].kind = "read"
  /\ pc' = [pc EXCEPT ![t] = IF cmd[t].reg > 327679 THEN "done" ELSE "open"]
  /\ UNCHANGED <<cmd, arg, sock, peer_up, nsock, is_down>>

(* _cmd_mb_write: the same check; the value is masked to 16 bits.         *)
_cmd_mb_write(t) ==
  /\ pc[t] = "start" /\ cmd[t].kind = "write"
  /\ pc' = [pc EXCEPT ![t] = IF cmd[t].reg > 327679 THEN "done" ELSE "open"]
  /\ UNCHANGED <<cmd, arg, sock, peer_up, nsock, is_down>>

(* mb_open -> _mb_open -> mb_tcp_bringup, client role: os_tcp_connect      *)
(* either fails (-1: its socket is closed again, the command prints        *)
(* "Failed to open" and returns) or returns a connected socket, which      *)
(* clears is_down.                                                         *)
mb_tcp_bringup(t) ==
  /\ pc[t] = "open"
  /\ \/ /\ pc' = [pc EXCEPT ![t] = "done"]
        /\ UNCHANGED <<arg, sock, peer_up, nsock, is_down>>
     \/ /\ nsock < MaxSockets
        /\ nsock' = nsock + 1
        /\ sock' = [sock EXCEPT ![nsock + 1] = "open"]
        /\ peer_up' = [peer_up EXCEPT ![nsock + 1] = TRUE]
        /\ arg' = [arg EXCEPT ![t] = nsock + 1]
        /\ is_down' = FALSE
        /\ pc' = [pc EXCEPT ![t] = "call"]
  /\ UNCHANGED cmd

(* The master call mb_cmds makes: one coil or register at reg, its table  *)
(* in the top half (MB_ADDRESS), the TCP unit being the socket.            *)
MasterCallOf(t) ==
  [kind |-> cmd[t].kind, unit |-> arg[t], table |-> cmd[t].reg \div 65536,
   off |-> cmd[t].reg % 65536, qty |-> 1]

(* The exchange of mbus_read / mbus_write on socket s: a call refused by   *)
(* its local checks does no I/O; otherwise a peer that has closed makes    *)
(* mb_tcp_tx or mb_tcp_rx close the socket and set is_down.                *)
Exchange(t) ==
  LET s == arg[t]
  IN  IF CallAccepted(MasterCallOf(t)) /\ ~peer_up[s]
      THEN sock' = [sock EXCEPT ![s] = "closed"] /\ is_down' = TRUE
      ELSE UNCHANGED <<sock, is_down>>

(* mb_read: mbus_read under drv->mtx. The mutex makes the call atomic with *)
(* respect to the other threads' calls (not to their open and close).      *)
mb_read(t) ==
  /\ pc[t] = "call" /\ cmd[t].kind = "read"
  /\ Exchange(t)
  /\ pc' = [pc EXCEPT ![t] = "close"]
  /\ UNCHANGED <<cmd, arg, peer_up, nsock>>

(* mb_write: mbus_write of one value under drv->mtx.                       *)
mb_write(t) ==
  /\ pc[t] = "call" /\ cmd[t].kind = "write"
  /\ Exchange(t)
  /\ pc' = [pc EXCEPT ![t] = "close"]
  /\ UNCHANGED <<cmd, arg, peer_up, nsock>>

(* mb_tcp_shutdown (peer = arg): close the socket only while the transport *)
(* is not marked down, then mark it down.                                  *)
mb_tcp_shutdown(s) ==
  IF ~is_down
  THEN sock' = [sock EXCEPT ![s] = "closed"] /\ is_down' = TRUE
  ELSE UNCHANGED <<sock, is_down>>

(* mb_close -> _mb_close: shut the transport down with the stream's arg.   *)
mb_close(t) ==
  /\ pc[t] = "close"
  /\ mb_tcp_shutdown(arg[t])
  /\ pc' = [pc EXCEPT ![t] = "done"]
  /\ UNCHANGED <<cmd, arg, peer_up, nsock>>

(* The slave at the other end closes its side of a connection.            *)
PeerClose(s) ==
  /\ peer_up[s]
  /\ peer_up' = [peer_up EXCEPT ![s] = FALSE]
  /\ UNCHANGED <<pc, cmd, arg, sock, nsock, is_down>>

(* Every command has returned.                                             *)
Finished == (\A t \in Threads : pc[t] = "done") /\ UNCHANGED vars

Next ==
  \/ \E t \in Threads :
       \/ _cmd_mb_read(t) \/ _cmd_mb_write(t) \/ mb_tcp_bringup(t)
       \/ mb_read(t) \/ mb_write(t) \/ mb_close(t)
  \/ \E s \in Sockets : PeerClose(s)
  \/ Finished

Spec == Init /\ [][Next]_vars

====
