------------------------------ MODULE RxChannel ------------------------------
(***************************************************************************)
(* What the receive path promises, whatever the SPI bus does: every FIFO   *)
(* is a bounded queue of frames that drops what arrives while it is full.  *)
(* Its oldest frame is delivered as it was sent, or taken along by one     *)
(* call that reports an error; or the whole queue is discarded.            *)
(***************************************************************************)
EXTENDS Integers, Sequences

CONSTANTS
  Fifo, Depth,        \* the FIFOs and their bounds
  Frames(_, _),       \* Frames(f, n): what the n-th frame of the bus may be, for f
  Delivery(_),        \* what the application is given for a frame
  Lossy,              \* whether a transaction that failed may have taken effect
  MaxFrames           \* bound: frames on the bus

VARIABLES
  arrived, failed,    \* number of frames on the bus, of calls that lost their frame
  queue, delivered    \* per FIFO: frames waiting, frames given to the application
vars == <<arrived, failed, queue, delivered>>

Init ==
  /\ arrived = 0 /\ failed = 0
  /\ queue = [f \in Fifo |-> <<>>] /\ delivered = [f \in Fifo |-> <<>>]

Arrive(f) ==
  /\ arrived < MaxFrames /\ arrived' = arrived + 1
  /\ \E fr \in Frames(f, arrived + 1) :
       queue' = [queue EXCEPT ![f] = IF Len(@) < Depth[f] THEN Append(@, fr) ELSE @]
  /\ UNCHANGED <<failed, delivered>>

Deliver(f) ==
  /\ queue[f] # <<>> /\ queue' = [queue EXCEPT ![f] = Tail(@)]
  /\ delivered' = [delivered EXCEPT ![f] = Append(@, Delivery(Head(queue[f])))]
  /\ UNCHANGED <<arrived, failed>>

(* The call fails on the last of its transactions. *)
Fail(f) ==
  /\ queue[f] # <<>> /\ failed' = failed + 1
  /\ queue' \in {queue} \cup IF Lossy THEN {[queue EXCEPT ![f] = Tail(@)]} ELSE {}
  /\ UNCHANGED <<arrived, delivered>>

Discard(f) ==
  queue' = [queue EXCEPT ![f] = <<>>] /\ UNCHANGED <<arrived, failed, delivered>>

Next == \E f \in Fifo : Arrive(f) \/ Deliver(f) \/ Fail(f) \/ Discard(f)

Spec == Init /\ [][Next]_vars
=============================================================================
