---------------------------- MODULE MCDataFlash -----------------------------
(* Two images that boot and one that does not, and configurations that       *)
(* differ in every part of the record.                                       *)
EXTENDS DataFlash

CONSTANTS v1, v2, broken

MCImages == {v1, v2, broken}
MCGood == {v1, v2}

Cfg(h, m, s, t) == [head |-> h, mark |-> m, speed |-> s, tail |-> t]

MCFallback == Cfg({0}, {0}, {1, 2}, {})
MCConfigs == {MCFallback, Cfg({1}, {0}, {1, 2}, {}), Cfg({0}, {0, 2}, {0}, {0}),
              Cfg({0}, {2}, {1, 2}, {1})}
MCScores == {{}, {0}, {1}, {0, 2}}

=============================================================================
