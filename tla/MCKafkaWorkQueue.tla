-------------------------- MODULE MCKafkaWorkQueue --------------------------
(* Small instances of KafkaWorkQueue; jobs and workers are model values.     *)
EXTENDS KafkaWorkQueue, TLC

CONSTANTS j1, j2, w1
=============================================================================
