--------------------------- MODULE MCSandboxPool ---------------------------
(* Instances of SandboxPool: whose session is whose, and who goes first.    *)
EXTENDS SandboxPool, TLC

CONSTANTS u1, u2, s1, s2

TwoUsers == s1 :> u1 @@ s2 :> u2
FirstGoesFirst == u1 :> 0 @@ u2 :> 1
OneSession == s1 :> u1
Alone == u1 :> 0

RuntimeSymmetry == Permutations(Runtimes)

=============================================================================
