---------------------- MODULE MCXiaozhiDownlink ----------------------
(* Instances of XiaozhiDownlink for TLC.                              *)
EXTENDS XiaozhiDownlink, TLC

\* two interrupts while one goroutine at a time speaks, none once both do
WhileOneSpeaks == ("off" :> 2) @@ ("inline" :> 2) @@ ("delayed" :> 0)
WhileBothSpeak == "delayed" :> 2

OneVoiceFails == {<<"answer", "off">>, <<"answer", "inline">>, <<"ack", "delayed">>}
NoVoiceFails  == {}
=============================================================================
