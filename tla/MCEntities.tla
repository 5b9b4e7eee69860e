------------------------------ MODULE MCEntities ------------------------------
(* Instances of Entities for TLC.  The first command is a broadcast to two    *)
(* spellings of one tag and to a blank, the second one an attachment.         *)
EXTENDS MCOperations, Entities

CONSTANTS d1, tagA, spelledA, blanks

MCTrim == (tagA :> tagA) @@ (spelledA :> tagA) @@ (blanks :> Blank)
MCCommand ==
    (h1 :> [kind |-> "broadcast", audience |-> "tag", keys |-> <<spelledA, blanks, tagA>>])
    @@ (h2 :> [kind |-> "attachment", audience |-> "none", keys |-> <<>>])
MCEntityWrites == [h \in Hashes |-> Len(Plan(h))]
=============================================================================
