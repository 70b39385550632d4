---------------------------- MODULE MCMessaging ----------------------------
(***************************************************************************)
(* TLC instances of Messaging: a parent and a child of one group.          *)
(***************************************************************************)
EXTENDS Messaging

CONSTANTS parent, child, m1, m2, m3, m4, none

E(i, f, t, k, c, s) == [id |-> i, from |-> f, to |-> t, kind |-> k, corr |-> c, ctl |-> s]

MCAgent == {parent, child}
MCChild == {child}
MCNobody == {}
MCChildReturns == [a \in MCAgent |-> IF a = child THEN 2 ELSE 1]
MCGroup == [a \in MCAgent |-> "group"]

Ask == E(m1, parent, child, "request", none, FALSE)
Answer == E(m2, child, parent, "reply", m1, FALSE)
Cancel == E(m3, parent, child, "cancel", m1, FALSE)
Steer == E(m4, parent, child, "event", none, TRUE)
Help == E(m1, child, parent, "request", none, TRUE)
Advice == E(m2, parent, child, "reply", m1, FALSE)

MCTask == {Ask, Answer, Cancel, Steer}
MCHelp == {Help, Advice}
=============================================================================
