---------------------------- MODULE IdempotentCalls ----------------------------
(***************************************************************************)
(* What the service promises its callers about idempotency keys, with no   *)
(* locks, objects or retries: each key is bound once to one operation, the *)
(* operation is settled at most once, and every call is answered once,     *)
(* with the operation of its key if the command is the one the key was     *)
(* bound by, with a conflict if it is not, or with a failure.              *)
(***************************************************************************)
CONSTANTS Requests, Keys, NoKey, Nobody, IdemKey, RequestHash

VARIABLES bound,     \* the operation of each key
          settled,   \* keys whose operation has its final outcome
          answer     \* what each call was told

callVars == <<bound, settled, answer>>

Waiting == [kind |-> "waiting", op |-> Nobody]
Failure == [kind |-> "failed", op |-> Nobody]
Conflict == [kind |-> "conflict", op |-> Nobody]
Outcome(o) == [kind |-> "ok", op |-> o]

Init ==
    /\ bound = [k \in Keys |-> Nobody]
    /\ settled = {}
    /\ answer = [r \in Requests |-> Waiting]

SameCommand(r, k) == bound[k] # Nobody /\ RequestHash[bound[k]] = RequestHash[r]

(* A call may be lost at the very step it takes effect: its caller is told *)
(* nothing and has to retry.                                               *)
AnswerOrLose(r, a) == answer' \in {answer, [answer EXCEPT ![r] = a],
                                   [answer EXCEPT ![r] = Failure]}

Bind(r, k) ==
    /\ IdemKey[r] = k /\ bound[k] = Nobody
    /\ answer[r] = Waiting
    /\ bound' = [bound EXCEPT ![k] = r]
    /\ AnswerOrLose(r, Waiting)
    /\ UNCHANGED settled

Settle(r, k) ==
    /\ IdemKey[r] = k /\ SameCommand(r, k)
    /\ answer[r] = Waiting
    /\ settled' = settled \cup {k}
    /\ AnswerOrLose(r, Outcome(bound[k]))
    /\ UNCHANGED bound

Replay(r, k) ==
    /\ IdemKey[r] = k /\ SameCommand(r, k) /\ k \in settled
    /\ answer[r] = Waiting
    /\ answer' = [answer EXCEPT ![r] = Outcome(bound[k])]
    /\ UNCHANGED <<bound, settled>>

Refuse(r, k) ==
    /\ IdemKey[r] = k /\ bound[k] # Nobody /\ ~SameCommand(r, k)
    /\ answer[r] = Waiting
    /\ answer' = [answer EXCEPT ![r] = Conflict]
    /\ UNCHANGED <<bound, settled>>

AnswerKeyless(r) ==
    /\ IdemKey[r] = NoKey
    /\ answer[r] = Waiting
    /\ answer' = [answer EXCEPT ![r] = Outcome(r)]
    /\ UNCHANGED <<bound, settled>>

(* Calls are lost: their caller gave up, a store call failed, a process died. *)
Lose(lost) ==
    /\ \A r \in lost : answer[r] = Waiting
    /\ answer' = [r \in Requests |-> IF r \in lost THEN Failure ELSE answer[r]]
    /\ UNCHANGED <<bound, settled>>

Next ==
    \/ \E r \in Requests, k \in Keys :
        Bind(r, k) \/ Settle(r, k) \/ Replay(r, k) \/ Refuse(r, k)
    \/ \E r \in Requests : AnswerKeyless(r)
    \/ \E lost \in SUBSET Requests : Lose(lost)

Spec == Init /\ [][Next]_callVars
=============================================================================
