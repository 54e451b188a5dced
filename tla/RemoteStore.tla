---------------------------- MODULE RemoteStore ----------------------------
(***************************************************************************)
(* What the users of one client may rely on when they call execute on a    *)
(* server: a call that returns took effect exactly once, at one moment     *)
(* between its call and its return, and returns what that effect gave.  A  *)
(* call that fails took effect already, or takes effect at some later      *)
(* moment, or never does; but not twice.                                   *)
(*                                                                         *)
(* One register stands for the datastore: a call reads it or writes the    *)
(* value named by its id.                                                  *)
(***************************************************************************)
EXTENDS Naturals, FiniteSets

CONSTANTS Caller, Id, Writes

VARIABLES
    value,     \* the register
    called,    \* how many calls have been made; they are numbered
    underway,  \* the calls that were sent
    effect,    \* effect[i]: what the register held once call i took effect
    call       \* call[p]: the last call of p, and how it ended

vars == <<value, called, underway, effect, call>>

Pending(id) == [id |-> id, outcome |-> "pending", value |-> 0]
Failed(id) == [id |-> id, outcome |-> "failed", value |-> 0]
Returned(id, v) == [id |-> id, outcome |-> "returned", value |-> v]

Init ==
    /\ value = 0 /\ called = 0 /\ underway = {}
    /\ effect = [i \in {} |-> 0]
    /\ call = [p \in Caller |-> Failed(0)]

\* p calls; the request is sent, or is lost.
Invoke(p) ==
    /\ call[p].outcome # "pending" /\ called + 1 \in Id
    /\ called' = called + 1
    /\ underway' \in {underway, underway \cup {called'}}
    /\ call' = [call EXCEPT ![p] = Pending(called')]
    /\ UNCHANGED <<value, effect>>

\* p calls, and the call fails at once: it is not sent.
Refuse(p) ==
    /\ call[p].outcome # "pending" /\ called + 1 \in Id
    /\ called' = called + 1
    /\ call' = [call EXCEPT ![p] = Failed(called')]
    /\ UNCHANGED <<value, underway, effect>>

TakeEffect(i) ==
    /\ i \in underway \ DOMAIN effect
    /\ value' = IF i \in Writes THEN i ELSE value
    /\ effect' = [j \in DOMAIN effect \cup {i} |-> IF j = i THEN value' ELSE effect[j]]
    /\ UNCHANGED <<called, underway, call>>

Return(p) ==
    /\ call[p].outcome = "pending" /\ call[p].id \in DOMAIN effect
    /\ call' = [call EXCEPT ![p] = Returned(@.id, effect[@.id])]
    /\ UNCHANGED <<value, called, underway, effect>>

Fail(p) ==
    /\ call[p].outcome = "pending"
    /\ call' = [call EXCEPT ![p] = Failed(@.id)]
    /\ UNCHANGED <<value, called, underway, effect>>

Next ==
    \/ \E p \in Caller : Invoke(p) \/ Refuse(p) \/ Return(p) \/ Fail(p)
    \/ \E i \in Id : TakeEffect(i)

Spec == Init /\ [][Next]_vars
=============================================================================
