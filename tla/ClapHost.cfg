SPECIFICATION ClapSpec
CONSTANTS
  NParams = 1
  MinValue = 0
  MaxValue = 1
  MaxSets = 1
  MaxWindows = 1
  Sources = {"fd"}
INVARIANTS ParamSettled SourcesHavePlugin
PROPERTIES PluginContract UpdatesDelivered
CHECK_DEADLOCK FALSE
