------------------------------ MODULE MCWeakPtr ------------------------------
(***************************************************************************)
(* Model-checking instance of WeakPtr: three WeakPtr slots, two guard      *)
(* slots and three TPtr slots, all model values.  Three handles let one    *)
(* guard hold two registrations while a third handle is copied or moved    *)
(* between guards; three TPtr slots let every live owning handle own a     *)
(* distinct TPtr.                                                          *)
(***************************************************************************)
EXTENDS WeakPtr, TLC

CONSTANTS h1, h2, h3, g1, g2, r1, r2, r3

MCHandles == {h1, h2, h3}
MCGuards == {g1, g2}
MCResources == {r1, r2, r3}

\* slots are interchangeable addresses: permuting them is sound
Symmetry == Permutations(MCHandles) \cup Permutations(MCGuards)
              \cup Permutations(MCResources)

=============================================================================
