SPECIFICATION SaveAfterRestoreSpec
CONSTANTS
  f1 = f1 f2 = f2 f3 = f3
  assets = assets network = network
  agent1 = agent1 agent2 = agent2
  r1 = r1 s1 = s1
  Initial = Initial Default = Default Undefined = Undefined None = None
  Feature <- MCFeature
  Group <- MCGroup
  Agent <- MCAgent
  Version <- MCVersion
  m_agent <- MCm_agent
  m_requiredIn <- MCm_requiredIn
  m_restart <- MCm_restart
  m_reset <- MCm_reset
  m_fp <- MCm_fp
  m_restoreOrder <- MCm_restoreOrder
  StrayFeature = {}
  StrayGroup = {}
  Thread = {r1, s1}
  Restores = {r1}
  Saves = {s1}
  Payload <- MCPayload
  SaveRequest <- MCSaveAll
  EnableReboot = TRUE
  ReplyKind = {"ok", "failed", "malformed"}
  CanTimeOut = TRUE
INVARIANTS
  SaveReflectsRestore
