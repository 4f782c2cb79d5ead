-------------------------- MODULE MCWaveStreaming --------------------------
(* Small instances of WaveStreaming for TLC.                               *)
EXTENDS WaveStreaming, TLC

CONSTANTS c1, c2

\* Five series: with MaxSamples = 2, two full requests and a smaller last one.
ThreeAndTwo == (c1 :> 3) @@ (c2 :> 2)
============================================================================
