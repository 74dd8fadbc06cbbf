--------------------------- MODULE MCAgentRuntime ---------------------------
(* AgentRuntime on small instances. *)
EXTENDS AgentRuntime, TLC

CONSTANTS alice, bob, c1, c2, k1, k2

Def(k, a, b) ==
    [skel |-> k, clients |-> [x \in Tags \X Users |-> IF x[2] = alice THEN a ELSE b]]

MCInitial == Def(k1, c1, c1)
\* Edits of the full model: another skeleton, a user removed, Xray switched off.
MCDefinitions == {MCInitial, Def(k2, c1, c1), Def(k1, NoCred, c1), None}
\* Two stacks: a user removed, Xray switched off.
PairDefinitions == {MCInitial, Def(k1, NoCred, c1), None}
\* Another credential of a user who stays.
CredentialDefinitions == {MCInitial, Def(k1, c1, c2)}
=============================================================================
