--------------------------- MODULE MCApprovalChain ---------------------------
EXTENDS ApprovalChain, TLC

CONSTANTS w1, w2, b1, b2, anna, root

Context(policy, highRisk, highlyConfidential) ==
    [policy |-> policy, highRisk |-> highRisk, overValueThreshold |-> FALSE,
     highlyConfidential |-> highlyConfidential, requireCloApproval |-> FALSE]

\* anna is a reviewer, root an administrator
MCUserRole == (anna :> "reviewer") @@ (root :> "admin")

\* default chains of two and four steps
MCDefaultContexts == {Context(<< >>, FALSE, FALSE), Context(<< >>, TRUE, TRUE)}

\* a default chain of three steps and a policy that names an unlisted role
MCMixedContexts == {Context(<< >>, TRUE, FALSE),
                    Context(<<"paralegal">>, FALSE, FALSE)}

Symmetry == Permutations(Workers) \union Permutations(BriefIds)
=============================================================================
