CONSTANTS
  Nobody = Nobody
  Handles = {file1}
  Names = {name1}
  Vars = {var1}
  MaxText = 2
  Scenarios <- MCScenarios
SPECIFICATION Spec
CHECK_DEADLOCK FALSE
INVARIANTS TypeOK SoleWriterSaved HandlesStable NeverOlderThanCall OutputInOrder NulCutEnds
PROPERTIES KeptAtDeath PromptFirst
