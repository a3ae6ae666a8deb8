---------------------- MODULE MCXiaozhiIngress ----------------------
(* Instances of XiaozhiIngress for TLC.                              *)
EXTENDS XiaozhiIngress

\* one long listen, with resets and without; two short ones with resets
OneOrTwoListens ==
  [listens : {1}, frames : {4}, resets : BOOLEAN]
    \cup [listens : {2}, frames : {2}, resets : {TRUE}]
=============================================================================
