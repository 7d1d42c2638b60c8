-------------------------- MODULE MC_CommandQueue --------------------------
(* Two b3scale instances, three commands, one tick = 30 s: the deadline    *)
(* (120 s) is 4 ticks, the housekeeping age (1 minute) 2 ticks, and the    *)
(* clock runs far enough past both for a row to expire and time out.      *)
EXTENDS CommandQueue

MCConsumers == {"i1", "i2"}
MCMaxCmds == 3
MCMaxTime == 6
MCDeadlineAge == 4
MCExpireAge == 2
MCMaxAborts == 1
=============================================================================
