-------------------------- MODULE MCMessageBroker --------------------------
(***************************************************************************)
(* TLC instances of MessageBroker: a parent and a child of one group.  The *)
(* envelopes are one request, its reply, its cancel and an event that the  *)
(* child sends under the identifier of its reply.                          *)
(***************************************************************************)
EXTENDS MessageBroker

CONSTANTS parent, child, m1, m2, m3, none

E(i, f, t, k, c, s) == [id |-> i, from |-> f, to |-> t, kind |-> k, corr |-> c, ctl |-> s]

MCAgent == {parent, child}
MCChild == {child}
MCGroup == [a \in MCAgent |-> "group"]

Ask == E(m1, parent, child, "request", none, FALSE)
Answer == E(m2, child, parent, "reply", m1, FALSE)
Cancel == E(m3, parent, child, "cancel", m1, FALSE)
Note == E(m2, child, parent, "event", none, TRUE)

MCOneRequest == {Ask, Answer, Cancel, Note}
=============================================================================
