----------------------------- MODULE MCListener -----------------------------
EXTENDS Listener, TLC

CONSTANTS c1, c2, c3, l1, l2

\* Two connections share a link, as two streams or two requests do.
SharedAndOwn == c1 :> l1 @@ c2 :> l1 @@ c3 :> l2
=============================================================================
