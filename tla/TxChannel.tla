----------------------------- MODULE TxChannel -----------------------------
(***************************************************************************)
(* What the transmit path promises, whatever the SPI bus does: every FIFO  *)
(* is a bounded queue of whole frames, which are numbered in the order the *)
(* application offers them.  A frame enters at the end, once; frames leave *)
(* at the front, onto the bus; or the whole queue is discarded.            *)
(***************************************************************************)
EXTENDS Integers, Sequences

CONSTANTS
  Fifo, Depth,     \* the FIFOs and their bounds
  Frame(_, _),     \* Frame(n, w): the n-th frame offered, of w payload words
  Sizes,           \* Sizes[f]: payload words of the frames offered to f
  MaxCalls         \* bound: frames offered

VARIABLES
  offered,         \* number of frames offered so far
  queue, sent      \* per FIFO: frames waiting, frames on the bus
vars == <<offered, queue, sent>>

Init ==
  /\ offered = 0
  /\ queue = [f \in Fifo |-> <<>>] /\ sent = [f \in Fifo |-> <<>>]

(* A frame gets its number; it may never be enqueued. *)
Offer == offered < MaxCalls /\ offered' = offered + 1 /\ UNCHANGED <<queue, sent>>

(* Only the frame offered last can be enqueued. *)
Enqueue(f) ==
  /\ Len(queue[f]) < Depth[f] /\ offered > 0
  /\ \A g \in Fifo : \A k \in DOMAIN (sent[g] \o queue[g]) :
        \A w \in Sizes[g] : (sent[g] \o queue[g])[k] # Frame(offered, w)
  /\ \E w \in Sizes[f] :
        queue' = [queue EXCEPT ![f] = Append(@, Frame(offered, w))]
  /\ UNCHANGED <<offered, sent>>

Send(f) ==
  /\ queue[f] # <<>>
  /\ sent' = [sent EXCEPT ![f] = Append(@, Head(queue[f]))]
  /\ queue' = [queue EXCEPT ![f] = Tail(@)]
  /\ UNCHANGED offered

Discard(f) == queue' = [queue EXCEPT ![f] = <<>>] /\ UNCHANGED <<offered, sent>>

Next == Offer \/ \E f \in Fifo : Enqueue(f) \/ Send(f) \/ Discard(f)

Spec == Init /\ [][Next]_vars
=============================================================================
