----------------------------- MODULE MCTFClient -----------------------------
(***************************************************************************)
(* Small instances of TFClient for TLC.                                    *)
(***************************************************************************)
EXTENDS TFClient, TLC

CONSTANTS a, b, c, q, alice, bob

\* Two clients that apply extrinsics and query.
TwoClients == [k \in Calls |-> IF k = b THEN bob ELSE alice]
Mixed == [k \in Calls |-> CASE k = a -> "smartContractModule" [] k = b -> "tfkvStore"
                            [] k = c -> "tfgridModule" [] k = q -> "query"]

\* A transfer, and a contract that is created after it.
TransferFirst == (a :> "balances") @@ (b :> "smartContractModule")
OneUser == [k \in {a, b} |-> alice]
=============================================================================
