------------------------------- MODULE MCThreads -------------------------------
(* Instances of Threads for TLC: r1 and r2 are one command and its retry.     *)
EXTENDS Threads, TLC

CONSTANTS r1, r2, r3, r4, c1, c2, c3, t1, t2, i1

MCCommandOf == (r1 :> c1) @@ (r2 :> c1) @@ (r3 :> c2) @@ (r4 :> c3)
MCOneInstance == [r \in Requests |-> i1]
MCRecipients == (c1 :> 2) @@ (c2 :> 1) @@ (c3 :> 1)

(* c1 and c2 share a thread id their clients made up; c3 answers c1 there.  *)
MCOneReply == (c1 :> None) @@ (c2 :> None) @@ (c3 :> c1)
MCSharedThread == (c1 :> t1) @@ (c2 :> t1) @@ (c3 :> None)
=============================================================================
