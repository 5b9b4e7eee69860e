----------------------------- MODULE MCReadState -----------------------------
(* Instances of ReadState for TLC: c1 is retried, c2 and c3 mark the same    *)
(* target; c3 may have its idempotency lock in common with c1.               *)
EXTENDS ReadState, TLC

CONSTANTS r1, r2, r3, r4, c1, c2, c3, t1, t2, s1, s2, s3, i1, i2

MCCommandOf == (r1 :> c1) @@ (r2 :> c1) @@ (r3 :> c2) @@ (r4 :> c3)
MCOneInstance == [r \in {r1, r2, r3, r4} |-> i1]
MCSameTarget == [c \in {c1, c2, c3} |-> t1]
MCOwnKeyShards == (c1 :> s1) @@ (c2 :> s2) @@ (c3 :> s3)
MCSharedKeyShard == (c1 :> s1) @@ (c2 :> s2) @@ (c3 :> s1)
(* All spell its ids alike, or c2 with a blank around one of them.           *)
MCOneSpelling == [c \in {c1, c2, c3} |-> s1]
MCTwoSpellings == (c1 :> s1) @@ (c2 :> s2) @@ (c3 :> s1)

MCExplicit == (c1 :> 2) @@ (c2 :> 1) @@ (c3 :> 2)
MCDefaulted == (c1 :> Unset) @@ (c2 :> Unset) @@ (c3 :> 1)
=============================================================================
