----------------------------- MODULE LossyFifo ------------------------------
(***************************************************************************)
(* What the keyboard's input buffer promises: bytes come out in the order  *)
(* they went in, each once, and one is lost only when Capacity bytes wait. *)
(***************************************************************************)
EXTENDS Naturals, Sequences

CONSTANTS
  Bytes,      \* what the keyboard can send
  Capacity    \* how many bytes can wait

VARIABLES
  queue,      \* the bytes that wait, the oldest first
  taken       \* the byte taken last

fifoVars == <<queue, taken>>

FifoInit ==
  /\ queue = <<>>
  /\ taken \in Bytes

Put(byte) ==
  /\ queue' = IF Len(queue) < Capacity THEN Append(queue, byte) ELSE queue
  /\ UNCHANGED taken

Get ==
  /\ queue # <<>>
  /\ taken' = Head(queue)
  /\ queue' = Tail(queue)

FifoNext == Get \/ \E byte \in Bytes : Put(byte)

FifoSpec == FifoInit /\ [][FifoNext]_fifoVars
=============================================================================
