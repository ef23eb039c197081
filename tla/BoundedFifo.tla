----------------------------- MODULE BoundedFifo -----------------------------
(***************************************************************************)
(* What pqueuep.h promises its callers: a first-in first-out channel that  *)
(* holds at most Capacity items.  hand[t] is the integer thread t holds:   *)
(* the argument it passes to pput, or what pget returned to it.            *)
(***************************************************************************)
EXTENDS Integers, Sequences

CONSTANTS Threads, Capacity

VARIABLES chan, hand

vars == <<chan, hand>>

Init == chan = <<>>

\* pput: blocks while the channel is full.
Put(t) ==
    /\ Len(chan) < Capacity
    /\ chan' = Append(chan, hand[t])
    /\ UNCHANGED hand

\* pget: blocks while the channel is empty.
Get(t) ==
    /\ chan # <<>>
    /\ chan' = Tail(chan)
    /\ hand' = [hand EXCEPT ![t] = Head(chan)]

\* Outside the channel a thread gets hold of some other integer.
Think(t) ==
    /\ hand' = [hand EXCEPT ![t] = hand'[t]]
    /\ UNCHANGED chan

Next == \E t \in Threads : Put(t) \/ Get(t) \/ Think(t)

Spec == Init /\ [][Next]_vars
=============================================================================
