----------------------------- MODULE MCCommand -----------------------------
(* A group of two features, one of them optional, and one of one, two           *)
(* configurations, and command lines that are complete, lack something, or      *)
(* name what is not there.                                                    *)
EXTENDS SrrCommand

CONSTANTS f1, f2, f3, assets, network, futuregroup, agent1, c1, c2

MCFeature == {f1, f2, f3}
MCGroup == {assets, network}
MCVersion == {"2.1"}
MCm_agent == [f \in MCFeature |-> agent1]
MCm_requiredIn == [f \in MCFeature |-> IF f = f2 THEN {} ELSE MCVersion]
MCm_restart == [f \in MCFeature |-> FALSE]
MCm_reset == [f \in MCFeature |-> f = f2]
MCm_fp == [g \in MCGroup |->
  IF g = assets THEN <<[m_feature |-> f1, m_priority |-> 1], [m_feature |-> f2, m_priority |-> 2]>>
  ELSE <<[m_feature |-> f3, m_priority |-> 1]>>]
MCm_restoreOrder == [g \in MCGroup |-> IF g = assets THEN 2 ELSE 1]

Json(c) == [is |-> "json", content |-> c, spelling |-> "own"]
Text(c) == [is |-> "text", content |-> c, spelling |-> "own"]
MCConfiguration == {
  [f \in MCFeature |-> IF f = f2 THEN Text(c1) ELSE Json(c1)],
  [f \in MCFeature |-> IF f = f3 THEN Text(c1) ELSE Json(c2)]}
MCFactory == [f \in MCFeature |-> Text(c2)]

MCPassphrase == {"", "x", "p", "q"}
MCCompliant == {"p", "q"}
Line(op) == [operation |-> op, passphrase |-> "p", password |-> "right", fileName |-> "good",
             groups |-> {}, force |-> FALSE]
MCOptions == {
  Line("save"), [Line("save") EXCEPT !.groups = {assets}],
  [Line("save") EXCEPT !.groups = {network, futuregroup}],
  [Line("save") EXCEPT !.fileName = "none"], [Line("save") EXCEPT !.passphrase = ""],
  [Line("save") EXCEPT !.passphrase = "x"],
  Line("restore"), [Line("restore") EXCEPT !.force = TRUE],
  [Line("restore") EXCEPT !.passphrase = "q"], [Line("restore") EXCEPT !.password = "wrong"],
  [Line("restore") EXCEPT !.fileName = "unopenable"],
  [Line("save") EXCEPT !.fileName = "unopenable"],
  Line("list"), Line("reset"), Line("else")}
=============================================================================
