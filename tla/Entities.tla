------------------------------- MODULE Entities -------------------------------
(***************************************************************************)
(* What send_broadcast and create_attachment write under the protocol of   *)
(* module Operations (src/src/application.rs): the entity and its lookup,  *)
(* then a broadcast has a descriptor for each audience key that is left of *)
(* those the client sent.                                                  *)
(***************************************************************************)
EXTENDS Operations, SequencesExt

CONSTANTS
    Names,       \* audience keys as clients spell them
    Trim,        \* [Names -> keys], what a spelling is without its white space
    Blank,       \* the trim of a key of white space only
    Everyone,    \* the audience key of a broadcast to all
    Command      \* [Hashes -> commands], the command behind each fingerprint

AudienceTypes == {"all", "tag", "explicit"}

(* validate_send_broadcast; an attachment has no audience. *)
Valid(c) ==
    \/ c.kind = "attachment" /\ c.keys = <<>>
    \/ /\ c.kind = "broadcast"
       /\ c.audience \in AudienceTypes
       /\ c.audience # "all" => c.keys # <<>>

ASSUME CommandsAssumption ==
    /\ Everyone # Blank
    /\ \A h \in Hashes : Valid(Command[h]) /\ Command[h].keys \in Seq(Names)

-----------------------------------------------------------------------------
(* What a command writes.                                                  *)

MutKeepUntrimmed(keys, name) == \* mutant: keys are compared and kept as they were sent
    IF Trim[name] = Blank \/ Contains(keys, name) THEN keys ELSE Append(keys, name)

(* A key that is not blank and not there yet is kept, without its white space. *)
KeepKey(keys, name) ==
    IF Trim[name] = Blank \/ Contains(keys, Trim[name]) THEN keys
    ELSE Append(keys, Trim[name])

(* The keys kept of the first n names. *)
KeptKeys(names) ==
    LET kept[n \in 0..Len(names)] == IF n = 0 THEN <<>> ELSE KeepKey(kept[n - 1], names[n])
    IN  kept

(* normalize_audience_keys: trimmed, without blank and repeated ones. *)
NormalizeAudienceKeys(c) ==
    IF c.audience = "all" THEN <<Everyone>> ELSE KeptKeys(c.keys)[Len(c.keys)]

(* All a command writes, in order: a descriptor is named by its key. *)
Plan(h) ==
    Heads \o IF Command[h].kind = "broadcast" THEN NormalizeAudienceKeys(Command[h])
             ELSE <<>>

ASSUME PlanAssumption == \A h \in Hashes : Writes[h] = Len(Plan(h))

-----------------------------------------------------------------------------
(* The audience a command names, read off the request as it was sent. *)
Named(c) == IF c.audience = "all" THEN {Everyone}
            ELSE {Trim[name] : name \in ToSet(c.keys)} \ {Blank}

(* An answered broadcast is filed for exactly the audience its client      *)
(* named, spelled one way or another, through retries that stop anywhere.  *)
AudienceReached ==
    \A r \in Requests : pc[r] = "ok" /\ Command[RequestHash[r]].kind = "broadcast" =>
        {Plan(RequestHash[r])[n] : n \in {m \in 3..Len(Plan(RequestHash[r])) :
                                             objects[<<op[r], m>>] # "absent"}}
            = Named(Command[RequestHash[r]])
==============================================================================
