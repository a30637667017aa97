--------------------------- MODULE MC_MasterDriver ---------------------------
(***************************************************************************)
(* Two shell threads, each running one mb_read or mb_write command through *)
(* the rt-kernel driver on a TCP bus: a coil, a register of the            *)
(* unsupported table 2, a holding register and a register past 0x4FFFF.    *)
(***************************************************************************)
EXTENDS MasterDriver

(* Coil 1, table 2 register 1, holding register 1, and 0x50000.            *)
RegsTried == {1, 131073, 262145, 327680}

(***************************************************************************)
(* mb_close closes the communication stream it is given (mb_master.h):    *)
(* once a command has returned after opening its stream, the stream's     *)
(* socket is closed, whatever the other thread's stream did meanwhile.     *)
(***************************************************************************)
StreamClosed ==
  \A t \in Threads : pc[t] = "done" /\ arg[t] # 0 => sock[arg[t]] = "closed"

====
