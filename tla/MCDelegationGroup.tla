------------------------- MODULE MCDelegationGroup -------------------------
(***************************************************************************)
(* The TLC instance: a root and three members in up to two generations.    *)
(* One of them, a1, has all of the root's authority, is resumed and has    *)
(* run records; the other two are its rivals for the slots or its          *)
(* children, with any role, and stay connected like the root.              *)
(***************************************************************************)
EXTENDS DelegationGroup, TLC

CONSTANTS root, a1, a2, a3, edit

Others == Permutations({a2, a3})

Stays(c) == c \in connected => c \in connected'
Plain(a) == processId'[a] <= 1 /\ runs'[a] = 0 /\ Stays(<<a, 1>>)

\* Its binding is the root's, one generation below.
Full(a) == binding'[a] \in {RootBinding, [RootBinding EXCEPT !.depth = 1]}

GroupSpec == Init /\ [][Next /\ Stays(<<Root, 0>>) /\ Full(a1) /\ Plain(a2) /\ Plain(a3)]_vars
=============================================================================
