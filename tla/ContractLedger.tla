--------------------------- MODULE ContractLedger ---------------------------
(***************************************************************************)
(* What a call of TwinDeploymentHandler.handle promises about the node     *)
(* contracts its user pays for, with everything else abstracted away:      *)
(* while it runs it may create contracts, cancel the ones it created and   *)
(* the ones it was asked to delete; once it has settled it touches none;   *)
(* a call that returns reports every contract it created, has cancelled    *)
(* every contract it was asked to delete; a call that throws reports none. *)
(***************************************************************************)
CONSTANTS
    Calls,      \* the calls of handle()
    NoCall,     \* the owner of a contract that no call created
    ContractIds,
    Doomed,     \* [Calls -> SUBSET ContractIds]: what a call is asked to delete
    Revocable   \* TRUE when somebody else may cancel contracts too

VARIABLES
    state,      \* contract -> "free", "created" or "deleted"
    owner,      \* contract -> the call that created it
    outcome,    \* call -> "running", "returned" or "threw"
    report      \* call -> the contracts it returns as created

ledgerVars == <<state, owner, outcome, report>>

Init ==
    /\ state \in [ContractIds -> {"free", "created"}]
    /\ owner = [id \in ContractIds |-> NoCall]
    /\ outcome = [c \in Calls |-> "running"]
    /\ report = [c \in Calls |-> {}]

Owned(c) == {id \in ContractIds : owner[id] = c}

\* The answer to a creation or a cancellation may settle the call as well: it
\* throws when that answer is an error, or when it was the end of its rollback.
Settles(c) ==
    /\ \/ UNCHANGED outcome
       \/ outcome' = [outcome EXCEPT ![c] = "threw"]
    /\ UNCHANGED report

Acquire(c) ==
    /\ outcome[c] = "running"
    /\ \E id \in ContractIds :
         /\ state[id] = "free"
         /\ state' = [state EXCEPT ![id] = "created"]
         /\ owner' = [owner EXCEPT ![id] = c]
    /\ Settles(c)

Cancel(id) ==
    /\ state[id] = "created"
    /\ state' = [state EXCEPT ![id] = "deleted"]

Release(c) ==
    /\ outcome[c] = "running"
    /\ \E id \in Owned(c) \cup Doomed[c] : Cancel(id)
    /\ Settles(c)
    /\ UNCHANGED owner

Return(c) ==
    /\ outcome[c] = "running"
    /\ \A id \in Doomed[c] : state[id] = "deleted"
    /\ outcome' = [outcome EXCEPT ![c] = "returned"]
    /\ report' = [report EXCEPT ![c] = Owned(c)]
    /\ UNCHANGED <<state, owner>>

Fail(c) ==
    /\ outcome[c] = "running"
    /\ outcome' = [outcome EXCEPT ![c] = "threw"]
    /\ UNCHANGED <<state, owner, report>>

Revoke ==
    /\ Revocable
    /\ \E id \in ContractIds : Cancel(id)
    /\ UNCHANGED <<owner, outcome, report>>

Next ==
    \/ \E c \in Calls : Acquire(c) \/ Release(c) \/ Return(c) \/ Fail(c)
    \/ Revoke

LedgerSpec == Init /\ [][Next]_ledgerVars
=============================================================================
