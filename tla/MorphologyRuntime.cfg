SPECIFICATION Spec
CONSTANTS
  Alphabet <- MCAlphabet
  Dictionary <- MCDictionary
  DictionaryIds <- MCDictionaryIds
  Morphemes <- MCMorphemes
  States <- MCStates
  Stems <- MCStems
  Edges <- MCEdges
  NoCondition <- MCNoCondition
  Inline = 2
  Spelling <- MCSpelling
  Calls <- MCCalls
  Formulas <- MCFormulas
INVARIANTS
  SearchIsComplete
  TablesAgree
  ConditionsAgree
  FormsAnalyseBack
  RuntimeReadingsSpellToken
PROPERTY
  CallsAdvance
