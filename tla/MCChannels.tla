----------------------------- MODULE MCChannels -----------------------------
(***************************************************************************)
(* One goroutine of each kind and two readers.  The scriber's and the      *)
(* indexer's channels have the capacity the code gives them; the writer's, *)
(* 10 and 10000 in the code, are shortened so that they can be full.       *)
(***************************************************************************)
EXTENDS Channels

CONSTANTS r1, r2, scriber, indexer, writer, t1, t2

MCTipCapacity == [s \in Subscriber |-> IF s = writer THEN 2 ELSE 1]
MCTxCapacity == [s \in TxSubscriber |-> 1]
=============================================================================
