SPECIFICATION CommandSpec
CONSTANTS
  f1 = f1 f2 = f2 f3 = f3
  assets = assets network = network futuregroup = futuregroup
  agent1 = agent1 c1 = c1 c2 = c2
  Feature <- MCFeature
  Group <- MCGroup
  Agent = {agent1}
  Version <- MCVersion
  m_agent <- MCm_agent
  m_requiredIn <- MCm_requiredIn
  m_restart <- MCm_restart
  m_reset <- MCm_reset
  m_fp <- MCm_fp
  m_restoreOrder <- MCm_restoreOrder
  StrayFeature = {}
  StrayGroup = {futuregroup}
  Content = {c1, c2}
  Options <- MCOptions
  Passphrase <- MCPassphrase
  Compliant <- MCCompliant
  Configuration <- MCConfiguration
  Factory <- MCFactory
  MaxTurns = 3
INVARIANTS
  CommandTypeOK
  RestoredAsSaved
  IntactAccepted
  EditedKeptOut
  NoSilentLoss
  IncompleteIsTold
