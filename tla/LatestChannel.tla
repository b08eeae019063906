--------------------------- MODULE LatestChannel ---------------------------
(***************************************************************************)
(* The "latest-only" topics of teleopit/sim2real/mp/ipc.py.  A channel is  *)
(* the sequence of messages a PUB socket has accepted and its one SUB      *)
(* socket has not yet read.  SNDHWM = RCVHWM = 1 bound the queue (Capacity *)
(* counts both ends); a PUB socket never blocks: a message that finds the  *)
(* queue full is dropped, and it is the NEW message that is dropped.       *)
(* recv_latest drains the whole queue and returns its last message only.   *)
(***************************************************************************)
EXTENDS Naturals, Sequences

CONSTANT Capacity   \* messages in flight between a publisher and its subscriber

ASSUME CapacityAssumption == Capacity \in Nat \ {0}

\* Everything a channel of messages from M can hold.
Channel(M) == { ch \in Seq(M) : Len(ch) <= Capacity }

\* The channel after publish(m).
Published(ch, m) == IF Len(ch) < Capacity THEN Append(ch, m) ELSE ch

\* What recv_latest returns from a channel that it empties: no message or one.
Received(ch) == IF ch = <<>> THEN <<>> ELSE <<ch[Len(ch)]>>

\* Every possible result of recv_latest on a topic of messages from M.
ReceivedFrom(M) == {<<>>} \cup { <<m>> : m \in M }
=============================================================================
