---------------------------- MODULE MCEvaluator ----------------------------
(* Evaluator for TLC: f(a, input), the likelihood r(f), and its sum t(r, b) *)
(* with a parameter.                                                        *)
EXTENDS Evaluator

CONSTANTS a, b, f, r, t

MCVars == {a, b}
MCOrder == <<a, b, f, r, t>>
MCServers == [n \in {f, r, t} |->
                CASE n = f -> {a, Input} [] n = r -> {f} [] n = t -> {r, b}]
MCZeros == {{<<a, 1>>, <<Input, 1>>, <<SumW, 1>>, <<Squared, 0>>}}
=============================================================================
