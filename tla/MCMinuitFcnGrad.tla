-------------------------- MODULE MCMinuitFcnGrad --------------------------
\* Instances of MinuitFcnGrad for TLC.
EXTENDS MinuitFcnGrad, TLC

CONSTANTS p0, p1, p2, b

Symmetry == Permutations(Workers)

Likelihoods(parallel, bad) == [parallel : {parallel}, offsetting : BOOLEAN, bad : {bad}]
AllSetups == Likelihoods(FALSE, {b}) \cup Likelihoods(TRUE, {}) \cup Likelihoods(TRUE, {b})
=============================================================================
