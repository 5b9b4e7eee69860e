-------------------------------- MODULE MCFeeds --------------------------------
(* An instance of Feeds for TLC: r1 and r2 send c1, which has a blank parent, *)
(* from two processes, r3 its reply c2.                                       *)
EXTENDS Feeds, TLC

CONSTANTS r1, r2, r3, c1, c2, i1, i2

MCCommandOf == (r1 :> c1) @@ (r2 :> c1) @@ (r3 :> c2)
MCTwoInstances == (r1 :> i1) @@ (r2 :> i2) @@ (r3 :> i2)
MCRecipients == (c1 :> 1) @@ (c2 :> 2)
MCBlankParent == (c1 :> Blank) @@ (c2 :> c1)
MCNoThreads == (c1 :> None) @@ (c2 :> None)
MCRank == (c1 :> 2) @@ (c2 :> 1)
=============================================================================
