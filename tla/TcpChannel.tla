----------------------------- MODULE TcpChannel -----------------------------
(***************************************************************************)
(* What the TCP framer promises its caller (spec 4.6), stated over whole   *)
(* MBAP messages. On each connection the peer sends the messages of Msgs   *)
(* in order. A return of mb_tcp_rx that consumes a message consumes the    *)
(* next one of the connection: its PDU length when the protocol field is  *)
(* 0, FRAME_NOK otherwise. A return may instead report that the            *)
(* connection was lost, after which only a new connection delivers        *)
(* anything. Timeouts consume nothing and are not recorded.               *)
(***************************************************************************)
EXTENDS ModbusPdu, Sequences, FiniteSets

CONSTANTS
  Msgs,    \* what the peer sends on each connection: [proto, len, body]
  MaxPdu   \* MAX_PDU_SIZE

VARIABLES
  conn,    \* the number of connections made
  sent,    \* whole messages the peer has sent on the current connection
  got      \* the returns that consumed a message or ended a connection

Consumed(c) == {got[i].msg : i \in {j \in DOMAIN got : got[j].conn = c}} \ {0}

NextMsg == Cardinality(Consumed(conn)) + 1

Ended(c) == \E i \in DOMAIN got : got[i].conn = c /\ got[i].msg = 0

Init == conn = 0 /\ sent = 0 /\ got = <<>>

Connect == conn' = conn + 1 /\ sent' = 0 /\ UNCHANGED got

Send == sent < Len(Msgs) /\ sent' = sent + 1 /\ UNCHANGED <<conn, got>>

(* The next message of the connection, whole: its PDU, or a drop.          *)
Consume ==
  LET k == NextMsg
  IN  /\ conn > 0 /\ ~Ended(conn) /\ k <= sent
      /\ got' = Append(got,
                  [ret  |-> IF Msgs[k].proto = 0 THEN Msgs[k].len - 1
                                                 ELSE EFRAME_NOK,
                   conn |-> conn, msg |-> k])
      /\ UNCHANGED <<conn, sent>>

(* The connection is lost, or reported lost again.                       *)
Lose ==
  /\ conn > 0
  /\ got' = Append(got, [ret |-> EFRAME_NOK, conn |-> conn, msg |-> 0])
  /\ UNCHANGED <<conn, sent>>

Next == Connect \/ Send \/ Consume \/ Lose

Spec == Init /\ [][Next]_<<conn, sent, got>>

====
