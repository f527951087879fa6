------------------------------ MODULE MCServer -----------------------------
(* A restore and the saves that follow it, on the tables of MCRestore.        *)
EXTENDS SrrServer

CONSTANTS f1, f2, f3, assets, network, agent1, agent2, r1, s1

MCFeature == {f1, f2, f3}
MCGroup == {assets, network}
MCAgent == {agent1, agent2}
MCVersion == {"1.0", "2.0", "2.1"}
MCm_agent == [f \in MCFeature |-> IF f = f2 THEN agent2 ELSE agent1]
MCm_requiredIn == [f \in MCFeature |-> IF f = f3 THEN {"2.1"} ELSE MCVersion]
MCm_restart == [f \in MCFeature |-> f # f2]
MCm_reset == [f \in MCFeature |-> f # f2]
MCm_fp == [g \in MCGroup |->
  IF g = assets THEN <<[m_feature |-> f1, m_priority |-> 1], [m_feature |-> f2, m_priority |-> 2]>>
  ELSE <<[m_feature |-> f3, m_priority |-> 1]>>]
MCm_restoreOrder == [g \in MCGroup |-> IF g = assets THEN 2 ELSE 1]

Ask(groups) == [readable |-> TRUE, passphraseOk |-> TRUE, m_group_list |-> groups]

MCSaveAll == {Ask(<<assets, network>>)}

Item1(f) == [id |-> f, features |-> {f}, intact |-> TRUE]
Grp(g, fs) == [id |-> g, features |-> fs, intact |-> TRUE]
Req(v, its) == [version |-> v, license |-> "granted", readable |-> TRUE,
                passphraseOk |-> TRUE, force |-> FALSE, items |-> its]

MCPayload == {Req("2.1", <<Grp(assets, {f1, f2})>>), Req("2.1", <<Grp(network, {f3})>>),
              Req("1.0", <<Item1(f1), Item1(f2)>>)}
=============================================================================
