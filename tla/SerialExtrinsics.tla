-------------------------- MODULE SerialExtrinsics --------------------------
(***************************************************************************)
(* What applyExtrinsic promises to its callers: extrinsics are executed    *)
(* one at a time, in the order of the calls; a call that resolves was      *)
(* executed by the chain, and one that rejects was not.                    *)
(***************************************************************************)
EXTENDS Naturals, Sequences

CONSTANTS
    Extrinsics,  \* the calls
    Late         \* TRUE when the answer to a call may be lost, and so a call
                 \* that rejects may still be executed, in whatever order

VARIABLES
    line,      \* the calls accepted and not answered, oldest first
    executed,  \* the calls the chain has executed
    answer     \* call -> "none", "resolved" or "rejected"

serialVars == <<line, executed, answer>>

Init ==
    /\ line = <<>>
    /\ executed = {}
    /\ answer = [c \in Extrinsics |-> "none"]

Accept(c) ==
    /\ answer[c] = "none"
    /\ \A i \in 1..Len(line) : line[i] # c
    /\ line' = Append(line, c)
    /\ UNCHANGED <<executed, answer>>

First(c) == line # <<>> /\ c = Head(line)

Execute(c) ==
    /\ First(c) \/ (Late /\ answer[c] = "rejected")
    /\ c \notin executed
    /\ executed' = executed \cup {c}
    /\ UNCHANGED <<line, answer>>

Resolve(c) ==
    /\ First(c)
    /\ c \in executed
    /\ answer' = [answer EXCEPT ![c] = "resolved"]
    /\ line' = Tail(line)
    /\ UNCHANGED executed

Reject(c) ==
    /\ First(c)
    /\ Late \/ c \notin executed
    /\ answer' = [answer EXCEPT ![c] = "rejected"]
    /\ line' = Tail(line)
    /\ UNCHANGED executed

Next == \E c \in Extrinsics : Accept(c) \/ Execute(c) \/ Resolve(c) \/ Reject(c)

SerialSpec == Init /\ [][Next]_serialVars
=============================================================================
