----------------------------- MODULE ModbusLink -----------------------------
(***************************************************************************)
(* One master (ModbusMaster) and one slave (ModbusSlave) on one link:      *)
(* an RTU bus or a TCP connection. The two engines share only the frames  *)
(* in flight, toSlave and toMaster, which keep their order.                *)
(*                                                                         *)
(* On RTU a frame may be corrupted on the wire (its CRC fails at the      *)
(* receiver); at most MaxFaults frames are. TCP delivers every byte.      *)
(*                                                                         *)
(* The transport, RTU or TCP, is chosen once at start (mb_rtu_init or     *)
(* mb_tcp_init) among Transports; over TCP the application makes only the *)
(* calls of TcpCalls.                                                      *)
(*                                                                         *)
(* slow, chosen once among SlowSlaves: the slave may take longer than the *)
(* master's timeout. When FALSE, the master times out only on a call whose *)
(* awaited request the slave is not handling and has not answered (the     *)
(* configured timeout exceeds the slave's response time).                  *)
(***************************************************************************)
EXTENDS ModbusPdu, Sequences, FiniteSets

CONSTANTS
  Transports, Calls, TcpCalls, MaxCalls,
  SlaveId, Iomap, GetResults, SetResults, VendorResults,
  MaxFaults, SlowSlaves

VARIABLES
  Transport,
  mpc, mcall, tid, munit, ncalls, outcome,
  spc, sreq, sresp, sbc, executed, drained,
  toSlave, toMaster,
  faults,     \* frames corrupted so far
  slow        \* the slave may answer after the master's timeout

vars == <<Transport, mpc, mcall, tid, munit, ncalls, outcome,
          spc, sreq, sresp, sbc, executed, drained, toSlave, toMaster, faults,
          slow>>

M == INSTANCE ModbusMaster
S == INSTANCE ModbusSlave

Init == Transport \in Transports /\ M!MasterInit /\ S!SlaveInit /\ toSlave = <<>> /\ toMaster = <<>>
        /\ faults = 0 /\ slow \in SlowSlaves

(* The request the current call awaits the answer to is being handled or  *)
(* its reply is on the way: with a fast slave the master's timeout does   *)
(* not fire then.                                                          *)
SlaveBusyWithCall ==
  LET t == M!RequestOf(mcall, ncalls)
  IN  \/ \E i \in DOMAIN toSlave : toSlave[i].tag = t
      \/ spc = "reply" /\ sreq.tag = t
      \/ \E i \in DOMAIN toMaster : toMaster[i].tag = t

(* A frame on the RTU bus is hit by noise.                                 *)
Corrupt ==
  /\ Transport = "rtu"
  /\ faults < MaxFaults
  /\ faults' = faults + 1
  /\ \/ \E i \in DOMAIN toSlave :
           toSlave' = [toSlave EXCEPT ![i].ok = FALSE] /\ UNCHANGED toMaster
     \/ \E i \in DOMAIN toMaster :
           toMaster' = [toMaster EXCEPT ![i].ok = FALSE] /\ UNCHANGED toSlave
  /\ UNCHANGED <<Transport, mpc, mcall, tid, munit, ncalls, outcome,
                 spc, sreq, sresp, sbc, executed, drained, slow>>

(* The calls the application makes next: those of its transport, and     *)
(* after a send_msg the get_msg that fetches the answer.                   *)
AppCalls ==
  LET cs == IF Transport = "rtu" THEN Calls ELSE TcpCalls
  IN  IF ncalls > 0 /\ mcall.kind = "send_msg"
      THEN {c \in cs : c.kind = "get_msg"} ELSE cs

RawKinds == {"send_msg", "get_msg"}

MasterStep ==
  /\ \/ \E c \in AppCalls : c.kind \notin RawKinds /\ M!MasterCall(c)
     \/ \E c \in AppCalls : c.kind = "send_msg" /\ M!MasterSendMsg(c)
     \/ \E c \in AppCalls : c.kind = "get_msg" /\ M!MasterGetMsg(c)
     \/ M!MasterRecv
     \/ M!MasterRecvMerged
     \/ M!MasterTimeout /\ (slow \/ ~SlaveBusyWithCall)
  /\ UNCHANGED <<Transport, spc, sreq, sresp, sbc, executed, drained, faults,
                 slow>>

SlaveStep ==
  /\ \/ S!SlaveRx
     \/ S!SlaveDrain
     \/ S!SlaveReply
  /\ UNCHANGED <<Transport, mpc, mcall, tid, munit, ncalls, outcome, faults,
                 slow>>

(* All calls made and answered or abandoned, the slave waiting: the       *)
(* system stays idle.                                                      *)
Finished ==
  /\ ncalls = MaxCalls /\ mpc = "idle" /\ spc = "rx" /\ toSlave = <<>>
  /\ UNCHANGED vars

Next == MasterStep \/ SlaveStep \/ Corrupt \/ Finished

Spec == Init /\ [][Next]_vars

====
