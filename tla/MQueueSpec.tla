----------------------------- MODULE MQueueSpec -----------------------------
(***************************************************************************)
(* What a message queue promises: a receiver gets the oldest of the        *)
(* messages of the highest priority, and every message once.               *)
(***************************************************************************)
EXTENDS Naturals, Sequences

CONSTANTS Slots, MsgPrios

VARIABLE arrived    \* the queued messages in the order of their arrival

Message == [slot : Slots, prio : MsgPrios]

Queued(slot) == \E i \in DOMAIN arrived : arrived[i].slot = slot

Init == arrived = <<>>

Send(m) ==
  /\ ~Queued(m.slot)
  /\ arrived' = Append(arrived, m)

Oldest(i) ==
  \A j \in DOMAIN arrived \ {i} :
    \/ arrived[j].prio < arrived[i].prio
    \/ arrived[j].prio = arrived[i].prio /\ i < j

Receive(i) ==
  /\ Oldest(i)
  /\ arrived' = SubSeq(arrived, 1, i - 1) \o SubSeq(arrived, i + 1, Len(arrived))

Next ==
  \/ \E m \in Message : Send(m)
  \/ \E i \in DOMAIN arrived : Receive(i)

Spec == Init /\ [][Next]_arrived
=============================================================================
