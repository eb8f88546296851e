--------------------------- MODULE MCQueueClient ---------------------------
(* QueueClient for TLC: what the storage of the object may hold.            *)
EXTENDS QueueClient

StaticStorage == {0}
AnyStorage == 0 .. SizeT - 1
=============================================================================
