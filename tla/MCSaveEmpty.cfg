SPECIFICATION SaveSpec
CONSTANTS
  f1 = f1 f2 = f2 f3 = f3
  assets = assets network = network futuregroup = futuregroup
  agent1 = agent1 agent2 = agent2
  s1 = s1 s2 = s2
  Initial = Initial Default = Default Undefined = Undefined None = None
  Feature <- MCFeature
  Group <- MCGroup
  Agent <- MCAgent
  Version <- MCVersion
  m_agent <- MCm_agent
  m_requiredIn <- MCm_requiredIn
  m_restart <- MCm_restart
  m_reset <- MCm_reset
  m_fp <- MCm_fp
  m_restoreOrder <- MCm_restoreOrder
  StrayFeature = {}
  StrayGroup = {futuregroup}
  Thread = {s1, s2}
  Saves = {s1, s2}
  SaveRequest <- MCSaveRequest
  ReplyKind = {"ok", "empty"}
  CanTimeOut = FALSE
INVARIANT
  PayloadGroupsComplete
