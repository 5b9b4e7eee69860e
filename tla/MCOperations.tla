----------------------------- MODULE MCOperations -----------------------------
(* Instances of Operations for TLC.                                          *)
EXTENDS Operations, TLC

CONSTANTS r1, r2, r3, r4, i1, i2, k1, s1, h1, h2

(* r1 and r2 are one command and its retry, r3 another command under the    *)
(* same key, r4 a command without a key.                                    *)
MCIdemKey == [r \in Requests |-> IF r = r4 THEN NoKey ELSE k1]
MCRequestHash == [r \in Requests |-> IF r \in {r1, r2} THEN h1 ELSE h2]
MCOneInstance == [r \in Requests |-> i1]
MCTwoInstances == [r \in Requests |-> IF r \in {r1, r4} THEN i1 ELSE i2]
MCWrites == (h1 :> 2) @@ (h2 :> 1)

MCOneShard == [k \in Keys |-> s1]
=============================================================================
