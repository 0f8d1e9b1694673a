--------------------------- MODULE MCRegistration ---------------------------
(* Registration for TLC, on two instances checked in one run.  In mode "race" *)
(* a UDP packet, a TCP connection and a lookup interleave and statements of   *)
(* the database fail; in mode "serial" io_loop handles the packets of two     *)
(* machines, two keys and two addresses one by one and the database works.    *)
EXTENDS Registration

CONSTANTS SerialKeys, SerialIps, SerialRegs

VARIABLE mode

Serial == INSTANCE Registration WITH
    Tcp <- {}, Lookups <- {}, Keys <- SerialKeys, Ips <- SerialIps, MaxRegs <- SerialRegs,
    DbMayFail <- FALSE

MCInit ==
    \/ mode = "race" /\ Init
    \/ mode = "serial" /\ Serial!Init

MCNext ==
    /\ UNCHANGED mode
    /\ \/ mode = "race" /\ Next
       \/ mode = "serial" /\ Serial!Next

MCSpec == MCInit /\ [][MCNext]_<<mode, vars>>

-----------------------------------------------------------------------------
(* Races, failures and restarts leave no peer object with a guid and no row.  *)
RaceGuidHasRow == mode = "race" => GuidHasRow

(* Without races the stored key is a key of the stored machine.               *)
SerialRowIsOneMachine == mode = "serial" => RowIsOneMachine

(* Without races and failures what is answered OK is in the table.            *)
SerialOkIsPersisted == [][mode = "serial" => Serial!OkStored]_vars
=============================================================================
