----------------------------- MODULE MCFederation -----------------------------
(***************************************************************************)
(* Small instances of the federation for TLC.  The processes b1 and b2 run *)
(* from copies of one data folder, b3 is another machine that was given    *)
(* the same join code, and b4 is that machine with a code of its own.      *)
(***************************************************************************)
EXTENDS FederationSafety

CONSTANTS b1, b2, b3, b4, d1, d2, k1, k2, r1, r2, g1, g2

DeviceOfBoot == [b \in Boots |-> IF b \in {b3, b4} THEN d2 ELSE d1]
TokenOfBoot == [b \in Boots |-> IF b = b4 THEN k2 ELSE k1]

Load(boots, removes, leaves, requests, ps, typed, shown, dials) ==
    [boots |-> boots, requests |-> requests, pages |-> ps, removes |-> removes, leaves |-> leaves,
     typed |-> typed, shown |-> shown, conns |-> dials]

\* two copies dial, and their device is removed
Joining == Load({b1, b2}, {k1}, {}, {}, {}, 0, 0, 3)
\* two devices that see each other, one leaves, the other also tries a used code
Neighbours == Load({b1, b3, b4}, {}, {b1}, {}, {}, 0, 0, 3)
\* a member and the requests to it
Asking == Load({b1}, {}, {b1}, {r1, r2}, {}, 0, 0, 3)
\* one page that talks, two pages over links that are rebuilt, a page of a
\* device that is superseded and leaves
Talking == Load({b1}, {}, {}, {}, {g1}, 2, 2, 2)
Sharing == Load({b1}, {}, {}, {}, {g1, g2}, 0, 1, 2)
Superseded == Load({b1, b2}, {}, {b1}, {}, {g1}, 0, 0, 2)

EachLoad == {Joining, Neighbours, Asking, Talking, Sharing, Superseded}
LateAnswer == {Asking}
=============================================================================
