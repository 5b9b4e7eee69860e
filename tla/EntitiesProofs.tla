----------------------------- MODULE EntitiesProofs -----------------------------
(***************************************************************************)
(* Proofs about Entities: what normalize_audience_keys keeps of a list of  *)
(* any length, and so whom an answered broadcast is filed for.             *)
(*                                                                         *)
(* Facts about the loop are proved by its least counterexample, for the    *)
(* natural numbers are well-founded.                                       *)
(***************************************************************************)
EXTENDS Entities, OperationsDurability, WellFoundedInduction

LEMMA LeastElement ==
    ASSUME NEW S \in SUBSET Nat, S # {}
    PROVE  \E m \in S : \A n \in S : m <= n
  <1>1. PICK R : R = OpToRel(<, Nat)
    OBVIOUS
  <1>2. PICK m \in S : \A n \in S : ~ (<<n, m>> \in R)
    BY <1>1, NatLessThanWellFounded, WFMin
  <1>3. \A n \in S : n < m => <<n, m>> \in R
    BY <1>1 DEF OpToRel
  <1>4. m \in Nat /\ \A n \in S : n \in Nat /\ ~(n < m)
    BY <1>2, <1>3
  <1> QED BY <1>4

-----------------------------------------------------------------------------
(* The loop of normalize_audience_keys, one pass after the other.          *)
Passes(names, f, m) ==
    f = [n \in 0..m |-> IF n = 0 THEN <<>> ELSE KeepKey(f[n - 1], names[n])]

LEMMA PassesExist == ASSUME NEW names, NEW m \in Nat PROVE \E f : Passes(names, f, m)
  <1> DEFINE Bad == {k \in Nat : ~ \E f : Passes(names, f, k)}
  <1>1. SUFFICES ASSUME Bad # {} PROVE FALSE
    OBVIOUS
  <1>2. PICK k \in Bad : \A n \in Bad : k <= n
    BY <1>1, LeastElement
  <1>3. Passes(names, [n \in 0..0 |-> <<>>], 0)
    BY DEF Passes
  <1>4. k # 0 /\ k - 1 \in Nat /\ k - 1 \notin Bad
    BY <1>2, <1>3
  <1>5. PICK f : Passes(names, f, k - 1)
    BY <1>4
  <1>6. PICK g : g = [n \in 0..k |-> IF n < k THEN f[n] ELSE KeepKey(f[k - 1], names[k])]
    OBVIOUS
  <1>7. ASSUME NEW n \in 0..k
        PROVE  g[n] = IF n = 0 THEN <<>> ELSE KeepKey(g[n - 1], names[n])
    <2>1. k \in Nat
      OBVIOUS
    <2>2. CASE n < k
      <3>1. f[n] = IF n = 0 THEN <<>> ELSE KeepKey(f[n - 1], names[n])
        BY <1>4, <1>5, <2>1, <2>2 DEF Passes
      <3> QED BY <1>6, <2>1, <2>2, <3>1
    <2>3. CASE n = k
      BY <1>4, <1>6, <2>1, <2>3
    <2> QED BY <2>1, <2>2, <2>3
  <1>8. Passes(names, g, k)
    BY <1>6, <1>7 DEF Passes
  <1> QED BY <1>2, <1>8

LEMMA KeptPasses ==
    ASSUME NEW names, Len(names) \in Nat
    PROVE  Passes(names, KeptKeys(names), Len(names))
  <1>1. \E f : Passes(names, f, Len(names))
    BY PassesExist
  <1> QED BY <1>1 DEF Passes, KeptKeys

(* The trims of the first n names, without the blank one. *)
Trims(names, n) == {Trim[names[i]] : i \in 1..n} \ {Blank}

Spellings == {Trim[name] : name \in Names}

LEMMA AppendSet ==
    ASSUME NEW keys \in Seq(Spellings), NEW key \in Spellings
    PROVE  ToSet(Append(keys, key)) = ToSet(keys) \cup {key}
  <1>1. /\ Len(keys) \in Nat /\ Len(Append(keys, key)) = Len(keys) + 1
        /\ DOMAIN keys = 1..Len(keys)
        /\ DOMAIN Append(keys, key) = 1..(Len(keys) + 1)
    OBVIOUS
  <1>2. /\ \A i \in 1..Len(keys) : Append(keys, key)[i] = keys[i]
        /\ Append(keys, key)[Len(keys) + 1] = key
    OBVIOUS
  <1>3. \A i : i \in 1..(Len(keys) + 1) <=> i \in 1..Len(keys) \/ i = Len(keys) + 1
    BY <1>1
  <1> QED BY <1>1, <1>2, <1>3, Zenon DEF ToSet

(* What one pass adds to the keys kept so far. *)
LEMMA KeepKeySet ==
    ASSUME NEW keys \in Seq(Spellings), NEW name \in Names
    PROVE  /\ KeepKey(keys, name) \in Seq(Spellings)
           /\ ToSet(KeepKey(keys, name)) = ToSet(keys) \cup ({Trim[name]} \ {Blank})
  <1>0. Trim[name] \in Spellings
    BY DEF Spellings
  <1>1. CASE Trim[name] = Blank \/ Contains(keys, Trim[name])
    BY <1>1 DEF KeepKey, Contains, ToSet
  <1>2. CASE ~(Trim[name] = Blank \/ Contains(keys, Trim[name]))
    <2>1. KeepKey(keys, name) = Append(keys, Trim[name])
      BY <1>2 DEF KeepKey
    <2> QED BY <1>0, <1>2, <2>1, AppendSet
  <1> QED BY <1>1, <1>2

(* After n passes the keys are the trims of the first n names, but the     *)
(* blank one.                                                              *)
LEMMA KeptSet ==
    ASSUME NEW names \in Seq(Names)
    PROVE  /\ KeptKeys(names)[Len(names)] \in Seq(Spellings)
           /\ ToSet(KeptKeys(names)[Len(names)]) =
                {Trim[name] : name \in ToSet(names)} \ {Blank}
  <1> DEFINE kept == KeptKeys(names)
             Good(n) == kept[n] \in Seq(Spellings) /\ ToSet(kept[n]) = Trims(names, n)
             Bad == {n \in 0..Len(names) : ~Good(n)}
  <1>1. Len(names) \in Nat /\ DOMAIN names = 1..Len(names)
        /\ \A i \in 1..Len(names) : names[i] \in Names
    OBVIOUS
  <1>2. /\ kept[0] = <<>>
        /\ \A n \in 1..Len(names) : kept[n] = KeepKey(kept[n - 1], names[n])
    <2>1. kept = [n \in 0..Len(names) |->
                    IF n = 0 THEN <<>> ELSE KeepKey(kept[n - 1], names[n])]
      BY <1>1, KeptPasses DEF Passes
    <2> HIDE DEF kept
    <2> QED BY <1>1, <2>1
  <1> HIDE DEF kept
  <1>3. Good(0)
    BY <1>2 DEF ToSet, Trims
  <1>4. ASSUME NEW n \in 1..Len(names), Good(n - 1) PROVE Good(n)
    <2>1. /\ KeepKey(kept[n - 1], names[n]) \in Seq(Spellings)
          /\ ToSet(KeepKey(kept[n - 1], names[n])) =
                ToSet(kept[n - 1]) \cup ({Trim[names[n]]} \ {Blank})
      BY <1>1, <1>4, KeepKeySet
    <2>2. \A i : i \in 1..n <=> i \in 1..(n - 1) \/ i = n
      BY <1>1
    <2>3. Trims(names, n) = Trims(names, n - 1) \cup ({Trim[names[n]]} \ {Blank})
      BY <2>2, Zenon DEF Trims
    <2> QED BY <1>2, <1>4, <2>1, <2>3
  <1>5. Bad = {}
    <2> SUFFICES ASSUME Bad # {} PROVE FALSE
      OBVIOUS
    <2>1. Bad \in SUBSET Nat
      BY <1>1
    <2>2. PICK n \in Bad : \A k \in Bad : n <= k
      BY <2>1, LeastElement
    <2>3. n # 0
      BY <1>3
    <2>4. n \in 1..Len(names) /\ n - 1 \in 0..Len(names) /\ n - 1 \notin Bad
      BY <1>1, <2>1, <2>2, <2>3
    <2> QED BY <1>4, <2>2, <2>4
  <1>6. /\ kept[Len(names)] \in Seq(Spellings)
        /\ ToSet(kept[Len(names)]) = Trims(names, Len(names))
    BY <1>1, <1>5
  <1>7. {Trim[name] : name \in ToSet(names)} = {Trim[names[i]] : i \in 1..Len(names)}
    BY <1>1 DEF ToSet
  <1> QED BY <1>6, <1>7 DEF Trims, kept

-----------------------------------------------------------------------------
(* Behind the entity and its lookup a broadcast is filed under the audience *)
(* its client named.                                                       *)
LEMMA PlannedAudience ==
    ASSUME NEW h \in Hashes, Command[h].kind = "broadcast"
    PROVE  /\ Len(Plan(h)) \in Nat
           /\ {Plan(h)[n] : n \in 3..Len(Plan(h))} = Named(Command[h])
  <1> DEFINE keys == NormalizeAudienceKeys(Command[h])
  <1>1. (\E S : keys \in Seq(S)) /\ ToSet(keys) = Named(Command[h])
    <2>1. CASE Command[h].audience = "all"
      <3>1. keys = <<Everyone>> /\ Named(Command[h]) = {Everyone}
        BY <2>1 DEF NormalizeAudienceKeys, Named
      <3>2. <<Everyone>> \in Seq({Everyone}) /\ ToSet(<<Everyone>>) = {Everyone}
        BY DEF ToSet
      <3> QED BY <3>1, <3>2
    <2>2. CASE Command[h].audience # "all"
      BY <2>2, CommandsAssumption, KeptSet DEF NormalizeAudienceKeys, Named
    <2> QED BY <2>1, <2>2
  <1>2. Plan(h) = <<"source", "lookup">> \o keys
    BY DEF Plan, Heads
  <1> HIDE DEF keys
  <1>3. /\ Len(keys) \in Nat /\ DOMAIN keys = 1..Len(keys)
        /\ Len(Plan(h)) = Len(keys) + 2
        /\ \A n \in 1..Len(keys) : Plan(h)[n + 2] = keys[n]
    BY <1>1, <1>2
  <1>4. ASSUME NEW n \in 3..Len(Plan(h)) PROVE Plan(h)[n] \in ToSet(keys)
    <2>1. n - 2 \in 1..Len(keys) /\ (n - 2) + 2 = n
      BY <1>3
    <2> QED BY <1>3, <2>1 DEF ToSet
  <1>5. ASSUME NEW i \in 1..Len(keys)
        PROVE  keys[i] \in {Plan(h)[n] : n \in 3..Len(Plan(h))}
    <2>1. i + 2 \in 3..Len(Plan(h))
      BY <1>3
    <2> QED BY <1>3, <2>1
  <1> QED BY <1>1, <1>3, <1>4, <1>5 DEF ToSet

(* An answered broadcast is filed for exactly the audience its client      *)
(* named, whatever white space, blank or repeated keys it sent, through    *)
(* retries that stop anywhere: on every adapter, by any number of          *)
(* processes (normalize_audience_keys, send_broadcast).                    *)
THEOREM AudiencesAreReached == Spec => []AudienceReached
  <1>1. Ordered => AudienceReached
    <2> SUFFICES ASSUME Ordered, NEW r \in Requests, pc[r] = "ok",
                        Command[RequestHash[r]].kind = "broadcast"
                 PROVE  {Plan(RequestHash[r])[n] :
                            n \in {m \in 3..Len(Plan(RequestHash[r])) :
                                        objects[<<op[r], m>>] # "absent"}}
                            = Named(Command[RequestHash[r]])
      BY DEF AudienceReached
    <2>1. RequestHash[r] \in Hashes
      BY RequestsAssumption
    <2>2. Writes[RequestHash[r]] = Len(Plan(RequestHash[r]))
      BY <2>1, PlanAssumption
    <2>3. Sound(r) /\ Len(Plan(RequestHash[r])) \in Nat
      BY <2>1, PlannedAudience DEF Ordered
    <2>4. \A m \in 3..Len(Plan(RequestHash[r])) : objects[<<op[r], m>>] # "absent"
      BY <2>2, <2>3 DEF Sound, Known, There
    <2>5. {m \in 3..Len(Plan(RequestHash[r])) : objects[<<op[r], m>>] # "absent"}
            = 3..Len(Plan(RequestHash[r]))
      BY <2>4
    <2> QED BY <2>1, <2>5, PlannedAudience
  <1> QED BY <1>1, OrderedAlways, PTL
=============================================================================
