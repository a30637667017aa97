------------------------------ MODULE TcpFramer ------------------------------
(***************************************************************************)
(* The Modbus/TCP framer mb_tcp.c over the Linux socket layer mbal_tcp.c, *)
(* driven either by the slave task (mb_slave, server role) or by master    *)
(* calls and connect/disconnect (mbus.c, client role). The socket carries  *)
(* bytes as tokens [m, i]: byte i of message m of the peer; the header is  *)
(* HdrLen bytes (7 in the code, MBAP_HEADER_SIZE). The peer sends the      *)
(* messages of Msgs on every connection, in pieces of any size, and may    *)
(* close its side.                                                         *)
(***************************************************************************)
EXTENDS ModbusPdu, Sequences, FiniteSets

CONSTANTS
  Roles,     \* the values transport->is_server may have
  Msgs,      \* the messages the peer sends: [proto, len, body]
  HdrLen,    \* MBAP_HEADER_SIZE
  MaxPdu,    \* MAX_PDU_SIZE
  SizeMax,   \* the size_t that -1 becomes
  MaxConn,   \* connections the peer accepts or makes
  MaxCalls,  \* master calls (client role)
  GarbageLens \* length fields read from bytes that are not a header

VARIABLES
  is_server, \* transport->is_server: TRUE under mb_slave, FALSE under mbus
  npc,       \* where the node's task is
  running,   \* slave->running
  is_down,   \* mb_tcp->is_down
  fd,        \* the socket transaction->arg names: "none", "open", "closed"
  arg,       \* transaction->arg: -1 or the connection it came from
  need,      \* bytes os_tcp_recv still waits for
  hdr,       \* the bytes read as the MBAP header
  body,      \* the bytes read as the PDU
  conn,      \* connections made so far
  inq,       \* bytes received by the socket and not yet read
  fin,       \* the peer has closed its side
  pm, pi,    \* the peer is sending byte pi + 1 of message pm
  got,       \* ghost: the returns that consumed a message or a connection
  ncalls,    \* master calls made
  holding,   \* the application holds a connection (client role)
  ncloses    \* ghost: calls of os_tcp_close

vars == <<is_server, npc, running, is_down, fd, arg, need, hdr, body, conn,
          inq, fin, pm, pi, got, ncalls, holding, ncloses>>

Bytes(m) == HdrLen + Msgs[m].body

ByteRange(m, a, b) == [j \in 1..(b - a + 1) |-> [m |-> m, i |-> a + j - 1]]

(* The message whose bytes, header and body, are exactly those read.       *)
WholeMsg(h, b) ==
  LET ms == {m \in 1..Len(Msgs) : h \o b = ByteRange(m, 1, Bytes(m))}
  IN  IF ms = {} THEN 0 ELSE CHOOSE m \in ms : TRUE

(* The header fields read: a message's own when the bytes are its header. *)
HeaderFields(h) ==
  IF \E m \in 1..Len(Msgs) : h = ByteRange(m, 1, HdrLen)
  THEN {Msgs[(CHOOSE m \in 1..Len(Msgs) : h = ByteRange(m, 1, HdrLen))]}
  ELSE [proto : {0, 1}, len : GarbageLens, body : {0}]

(* size = length - 1 in int, stored in a size_t, then clamped.            *)
ToSize(x) == IF x < 0 THEN SizeMax ELSE x

(* Mutant: the unit id is counted in the body.                           *)
BodySizeKeepsUnit(len) ==
  IF ToSize(len) > MaxPdu THEN MaxPdu ELSE ToSize(len)

BodySize(len) ==
  IF ToSize(len - 1) > MaxPdu THEN MaxPdu ELSE ToSize(len - 1)

(* mb_tcp_init leaves is_down set; mb_slave_init or mbus_init sets the   *)
(* role and the slave task starts at its loop.                             *)
Init ==
  /\ is_server \in Roles
  /\ npc = IF is_server THEN "loop" ELSE "idle"
  /\ running = TRUE /\ is_down = TRUE
  /\ fd = "none" /\ arg = -1
  /\ need = 0 /\ hdr = <<>> /\ body = <<>>
  /\ conn = 0 /\ inq = <<>> /\ fin = FALSE /\ pm = 1 /\ pi = 0
  /\ got = <<>> /\ ncalls = 0 /\ holding = FALSE /\ ncloses = 0

(* os_tcp_close on the socket transaction->arg names.                     *)
os_tcp_close == fd' = "closed" /\ ncloses' = ncloses + 1

(* Mutant: the socket is closed but the transport not marked down.        *)
CloseDownKeepsUp == os_tcp_close /\ UNCHANGED is_down

(* Close the socket and mark the transport down, as each error path of   *)
(* mb_tcp_rx and mb_tcp_tx does.                                           *)
CloseDown == os_tcp_close /\ is_down' = TRUE

(* Where the task goes when mb_tcp_rx returns ret.                         *)
AfterRx(ret) ==
  npc' = IF ~is_server THEN "idle"
         ELSE IF ret > 0 THEN "tx" ELSE "loop"

Record(ret, msg) == got' = Append(got, [ret |-> ret, conn |-> arg, msg |-> msg])

(* A connection from the peer: the stream starts empty.                   *)
Connected ==
  /\ conn < MaxConn
  /\ conn' = conn + 1 /\ arg' = conn + 1
  /\ fd' = "open" /\ is_down' = FALSE
  /\ inq' = <<>> /\ fin' = FALSE /\ pm' = 1 /\ pi' = 0

------------------------------------------------------------------------------
(* The slave task: while (running) { while (is_down) bring up, retrying   *)
(* on -1; handle one request }.                                            *)
SlaveLoop ==
  /\ npc = "loop"
  /\ npc' = CASE ~running -> "done"
              [] is_down  -> "bringup"
              [] OTHER    -> "wait"
  /\ UNCHANGED <<is_server, running, is_down, fd, arg, need, hdr, body, conn,
                 inq, fin, pm, pi, got, ncalls, holding, ncloses>>

(* mb_tcp_bringup, server: os_tcp_accept_connection accepts one peer, or  *)
(* its 500 ms receive timeout ends the accept and -1 is returned.          *)
SlaveBringup ==
  /\ npc = "bringup"
  /\ \/ Connected /\ npc' = "wait"
     \/ arg' = -1 /\ npc' = "loop"
        /\ UNCHANGED <<is_down, fd, conn, inq, fin, pm, pi>>
  /\ UNCHANGED <<is_server, running, need, hdr, body, got, ncalls, holding,
                 ncloses>>

(* mb_slave_shutdown, from another task.                                  *)
SlaveShutdown ==
  /\ is_server /\ running
  /\ running' = FALSE
  /\ UNCHANGED <<is_server, npc, is_down, fd, arg, need, hdr, body, conn, inq,
                 fin, pm, pi, got, ncalls, holding, ncloses>>

(* The master application: mbus_connect, a call (mb_tcp_tx then           *)
(* mb_tcp_rx), mbus_disconnect. It cannot see is_down.                     *)
AppConnect ==
  /\ npc = "idle" /\ ~holding
  /\ \/ Connected /\ holding' = TRUE
     \/ UNCHANGED <<is_down, fd, arg, conn, inq, fin, pm, pi, holding>>
  /\ UNCHANGED <<is_server, npc, running, need, hdr, body, got, ncalls,
                 ncloses>>

AppCall ==
  /\ npc = "idle" /\ holding /\ ncalls < MaxCalls
  /\ npc' = "tx" /\ ncalls' = ncalls + 1
  /\ UNCHANGED <<is_server, running, is_down, fd, arg, need, hdr, body, conn,
                 inq, fin, pm, pi, got, holding, ncloses>>

(* mb_tcp_shutdown: close the socket only if not already down.            *)
mb_tcp_shutdown ==
  IF ~is_down THEN CloseDown ELSE UNCHANGED <<fd, is_down, ncloses>>

(* mbus_disconnect: the transport's shutdown with the connection's socket. *)
AppDisconnect ==
  /\ npc = "idle" /\ holding
  /\ mb_tcp_shutdown
  /\ holding' = FALSE
  /\ UNCHANGED <<is_server, npc, running, arg, need, hdr, body, conn, inq, fin,
                 pm, pi, got, ncalls>>

------------------------------------------------------------------------------
(* os_tcp_send: what the send loop returns for a whole message: its size  *)
(* (here 1), or -1 on a closed descriptor; to a peer that has closed, the *)
(* send may still be taken by the kernel or fail.                          *)
os_tcp_send ==
  IF fd # "open" THEN {-1} ELSE IF fin THEN {1, -1} ELSE {1}

(* mb_tcp_tx: one os_tcp_send of header and PDU; a result <= 0 closes the *)
(* socket and marks the transport down.                                    *)
TcpTx ==
  /\ npc = "tx"
  /\ npc' = IF is_server THEN "loop" ELSE "wait"
  /\ \E result \in os_tcp_send :
       IF result <= 0 THEN CloseDown ELSE UNCHANGED <<fd, is_down, ncloses>>
  /\ UNCHANGED <<is_server, running, arg, need, hdr, body, conn, inq, fin, pm,
                 pi, got, ncalls, holding>>

(* os_tcp_recv_wait: select fails on a closed descriptor (-1), reports    *)
(* the socket readable when data or the end of stream is there (1), or    *)
(* times out (0).                                                          *)
os_tcp_recv_wait ==
  IF fd # "open" THEN {-1} ELSE IF inq # <<>> \/ fin THEN {1} ELSE {0}

(* The start of mb_tcp_rx: -1 closes, marks the transport down and returns *)
(* FRAME_NOK; 0 returns ETIMEOUT; otherwise the header is read.            *)
RecvWait ==
  /\ npc = "wait"
  /\ \E result \in os_tcp_recv_wait :
       \/ result = -1 /\ CloseDown /\ Record(EFRAME_NOK, 0) /\ AfterRx(-1)
          /\ UNCHANGED <<need, hdr>>
       \/ result = 0 /\ AfterRx(ETIMEOUT)
          /\ UNCHANGED <<fd, is_down, ncloses, got, need, hdr>>
       \/ result > 0 /\ npc' = "hdr" /\ need' = HdrLen /\ hdr' = <<>>
          /\ UNCHANGED <<fd, is_down, ncloses, got>>
  /\ UNCHANGED <<is_server, running, arg, body, conn, inq, fin, pm, pi, ncalls,
                 holding>>

(* One recv of os_tcp_recv: the bytes there are, up to what it waits for. *)
RecvTake ==
  /\ npc \in {"hdr", "body"} /\ need > 0 /\ inq # <<>>
  /\ LET k == IF Len(inq) < need THEN Len(inq) ELSE need
     IN  /\ inq' = SubSeq(inq, k + 1, Len(inq))
         /\ need' = need - k
         /\ IF npc = "hdr"
            THEN hdr' = hdr \o SubSeq(inq, 1, k) /\ UNCHANGED body
            ELSE body' = body \o SubSeq(inq, 1, k) /\ UNCHANGED hdr
  /\ UNCHANGED <<is_server, npc, running, is_down, fd, arg, conn, fin, pm, pi,
                 got, ncalls, holding, ncloses>>

(* Mutant: the accepted socket has no receive timeout.                    *)
RecvShortNoTimeout ==
  /\ npc \in {"hdr", "body"} /\ need > 0 /\ inq = <<>>
  /\ fin
  /\ CloseDown /\ Record(EFRAME_NOK, 0) /\ AfterRx(EFRAME_NOK)
  /\ UNCHANGED <<is_server, running, arg, need, hdr, body, conn, inq, fin, pm,
                 pi, ncalls, holding>>

(* os_tcp_recv ends short: recv returned 0 (the peer closed) or, on the   *)
(* accepted socket only, -1 (SO_RCVTIMEO of RCV_TIMEOUT). mb_tcp_rx       *)
(* closes, marks the transport down and returns FRAME_NOK.                 *)
RecvShort ==
  /\ npc \in {"hdr", "body"} /\ need > 0 /\ inq = <<>>
  /\ fin \/ is_server
  /\ CloseDown /\ Record(EFRAME_NOK, 0) /\ AfterRx(EFRAME_NOK)
  /\ UNCHANGED <<is_server, running, arg, need, hdr, body, conn, inq, fin, pm,
                 pi, ncalls, holding>>

(* The header is complete: size from its length field, then the body.    *)
(* A body of 0 bytes is a recv of 0, which os_tcp_recv returns as 0: the  *)
(* result <= 0 branch closes the connection.                               *)
RecvHeader ==
  /\ npc = "hdr" /\ need = 0
  /\ \E f \in HeaderFields(hdr) :
       LET size == BodySize(f.len)
       IN  IF size = 0
           THEN /\ CloseDown /\ Record(EFRAME_NOK, 0) /\ AfterRx(EFRAME_NOK)
                /\ UNCHANGED <<need, body>>
           ELSE /\ npc' = "body" /\ need' = size /\ body' = <<>>
                /\ UNCHANGED <<fd, is_down, ncloses, got>>
  /\ UNCHANGED <<is_server, running, arg, hdr, conn, inq, fin, pm, pi, ncalls,
                 holding>>

(* The body is complete: drop it if the protocol field is not 0, else     *)
(* return its size.                                                        *)
RecvBody ==
  /\ npc = "body" /\ need = 0
  /\ \E f \in HeaderFields(hdr) :
       LET ret == IF f.proto # 0 THEN EFRAME_NOK ELSE Len(body)
       IN  Record(ret, WholeMsg(hdr, body)) /\ AfterRx(ret)
  /\ UNCHANGED <<is_server, running, is_down, fd, arg, need, hdr, body, conn,
                 inq, fin, pm, pi, ncalls, holding, ncloses>>

------------------------------------------------------------------------------
(* The peer writes the next bytes of its current message.                 *)
PeerSend ==
  /\ fd = "open" /\ ~fin /\ pm <= Len(Msgs)
  /\ \E k \in 1..(Bytes(pm) - pi) :
       /\ inq' = inq \o ByteRange(pm, pi + 1, pi + k)
       /\ IF pi + k = Bytes(pm) THEN pm' = pm + 1 /\ pi' = 0
                                ELSE pi' = pi + k /\ UNCHANGED pm
  /\ UNCHANGED <<is_server, npc, running, is_down, fd, arg, need, hdr, body,
                 conn, fin, got, ncalls, holding, ncloses>>

PeerClose ==
  /\ fd = "open" /\ ~fin
  /\ fin' = TRUE
  /\ UNCHANGED <<is_server, npc, running, is_down, fd, arg, need, hdr, body,
                 conn, inq, pm, pi, got, ncalls, holding, ncloses>>

Node ==
  \/ SlaveLoop \/ SlaveBringup
  \/ TcpTx \/ RecvWait \/ RecvTake \/ RecvShort \/ RecvHeader \/ RecvBody

(* The task has returned from mb_slave.                                    *)
Finished == npc = "done" /\ UNCHANGED vars

Next ==
  Node \/ SlaveShutdown \/ AppConnect \/ AppCall \/ AppDisconnect
  \/ PeerSend \/ PeerClose \/ Finished

(* The task runs whenever it can; the socket timeouts fire. The peer and  *)
(* the application owe nothing.                                            *)
Spec == Init /\ [][Next]_vars /\ WF_vars(Node)

====
