---------------------------- MODULE MCValueCache ----------------------------
(* ValueCache for TLC: a density p(x, a), which can get the function h(a)   *)
(* for its server a, inside a RooBinSamplingPdf s over x; a function t(s, a)*)
(* above it and a density d(t) above that. h is minimized.                  *)
EXTENDS ValueCache

CONSTANTS x, a, p, s, h, t, d

MCLeaves == {x, a}
MCFuncs == {p, s, h, t, d}
MCDensities == {p, s, d}
MCServers == [f \in MCFuncs |->
                CASE f = p -> {x, a} [] f = s -> {p, x}
                  [] f = h -> {a}    [] f = t -> {s, a} [] f = d -> {t}]
MCRedirections == {<<p, a, h>>}
MCOptimized == {<<h, a>>}
MCSamples == <<3, 1>>
MCGraph == {a, h}
MCBatch == {h}
=============================================================================
