----------------------- MODULE MCTwinDeploymentHandler -----------------------
(***************************************************************************)
(* Small instances of TwinDeploymentHandler for TLC.                       *)
(***************************************************************************)
EXTENDS TwinDeploymentHandler, TLC

CONSTANTS h1, h2, x, y, z, old, new, other

MCVersion == (old :> 0) @@ (new :> 1) @@ (other :> 0)

NodeContract == [kind |-> "node", spec |-> old, names |-> {}]
NameContract(n) == [kind |-> "name", spec |-> NoSpec, names |-> {n}]

Deploy(s, names) == [operation |-> "deploy", spec |-> s, contract_id |-> 0,
                     names |-> names, network |-> FALSE]
Update(s, id, names) == [operation |-> "update", spec |-> s, contract_id |-> id,
                         names |-> names, network |-> TRUE]
Delete(id, names) == [operation |-> "delete", spec |-> old, contract_id |-> id,
                      names |-> names, network |-> TRUE]

\* One call that updates, deploys twice and deletes.
MixedExisting == <<NodeContract, NodeContract>>
MixedBatch == (h1 :> <<Update(new, 1, <<>>), Deploy(other, <<>>),
                       Delete(2, <<>>), Deploy(other, <<>>)>>)

\* Two calls on contracts of their own, at the same time.
PairBatch == (h1 :> <<Deploy(other, <<>>), Update(new, 1, <<>>)>>)
          @@ (h2 :> <<Deploy(other, <<>>), Delete(2, <<>>)>>)

\* Gateways: one call deploys two, the first of a registered name, another
\* updates a deployment and deletes a gateway.
GatewayExisting == <<NodeContract, NameContract(y), NodeContract, NameContract(z)>>
GatewayBatch == (h1 :> <<Deploy(other, <<y, x>>)>>)
             @@ (h2 :> <<Update(new, 3, <<>>), Delete(1, <<z>>)>>)

\* Two deployments of one call.
TwoDeploysBatch == (h1 :> <<Deploy(other, <<>>), Deploy(other, <<>>)>>)
=============================================================================
