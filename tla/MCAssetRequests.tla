-------------------------- MODULE MCAssetRequests --------------------------
(***************************************************************************)
(* Small instances of AssetRequests.                                       *)
(***************************************************************************)
EXTENDS AssetRequests, TLC

CONSTANTS s1, s2, c1, e1, a1, a2, a3, o1, o2, t1

\* A change of owner and text that comes to both sessions, asks for two owners that
\* come to the first alone, and an edit that clears both to the second.
SharedAndAlone == (s1 :> {c1, a1, a2}) @@ (s2 :> {c1, e1})

Propose(o, t) == [owner |-> o, text |-> t]

Proposals == (c1 :> Propose(o1, t1)) @@ (a1 :> Propose(o1, Same)) @@ (a2 :> Propose(o2, Same))
             @@ (e1 :> Propose(NoOwner, NoText))

\* One ask that comes to both.
Both == (s1 :> {a3}) @@ (s2 :> {a3})
OneAsk == a3 :> Propose(Same, t1)

=============================================================================
