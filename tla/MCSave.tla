------------------------------- MODULE MCSave -------------------------------
(* Small instance of SrrSave: the tables of MCRestore, two requests at once.  *)
EXTENDS SrrSave

CONSTANTS f1, f2, f3, assets, network, futuregroup, agent1, agent2, s1, s2

MCFeature == {f1, f2, f3}
MCGroup == {assets, network}
MCAgent == {agent1, agent2}
MCVersion == {"1.0", "2.0", "2.1"}
MCm_agent == [f \in MCFeature |-> IF f = f2 THEN agent2 ELSE agent1]
MCm_requiredIn == [f \in MCFeature |-> IF f = f3 THEN {"2.1"} ELSE MCVersion]
MCm_restart == [f \in MCFeature |-> f # f2]
MCm_reset == [f \in MCFeature |-> f # f2]
MCm_fp == [g \in MCGroup |->
  IF g = assets THEN <<[m_feature |-> f1, m_priority |-> 1], [m_feature |-> f2, m_priority |-> 2]>>
  ELSE <<[m_feature |-> f3, m_priority |-> 1]>>]
MCm_restoreOrder == [g \in MCGroup |-> IF g = assets THEN 2 ELSE 1]

Ask(groups) == [readable |-> TRUE, passphraseOk |-> TRUE, m_group_list |-> groups]

(* All groups, an unknown one, one named twice, none, and two requests that    *)
(* are refused.                                                               *)
MCSaveRequest == {
  Ask(<<assets, network>>), Ask(<<futuregroup, network>>), Ask(<<assets, network, assets>>),
  Ask(<<>>),
  [Ask(<<network>>) EXCEPT !.readable = FALSE], [Ask(<<network>>) EXCEPT !.passphraseOk = FALSE]}
=============================================================================
