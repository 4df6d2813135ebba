--------------------------- MODULE MCWalletStore ---------------------------
(***************************************************************************)
(* Small instances of WalletStore for TLC.                                 *)
(***************************************************************************)
EXTENDS WalletStore, TLC

CONSTANTS c1, c2, c3, s, t

MCRequests == {[op |-> o, name |-> n, secret |-> x] :
                 o \in {"import", "update"}, n \in {"a", "b"}, x \in {t}}
              \cup {[op |-> "import", name |-> "a", secret |-> s],
                    [op |-> "delete", name |-> "a", secret |-> s]}
With(n) == [name |-> n, secret |-> s]
MCFirstWallets == {<<>>, <<With("a")>>, <<With("b"), With("d"), With("e")>>}
Symmetry == Permutations(Calls)
=============================================================================
