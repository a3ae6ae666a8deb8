----------------------- MODULE MCXiaozhiStreamingASR -----------------------
(* Instances of XiaozhiStreamingASR for TLC.                               *)
EXTENDS XiaozhiStreamingASR

\* one listen that either side may stop, and two with every fault
OneOrTwoListens ==
  [listens : {1}, gatewayStops : {TRUE}, startFaults : {TRUE}, commitFaults : {FALSE}]
    \cup [listens : {2}, gatewayStops : {FALSE}, startFaults : {TRUE}, commitFaults : {TRUE}]

PlainListen ==
  [listens : {1}, gatewayStops : {FALSE}, startFaults : {FALSE}, commitFaults : {FALSE}]
=============================================================================
