SPECIFICATION Spec
CONSTANT Sources <- AllSources
INVARIANTS
  AcceptsReducible
  ExpansionExact
  AnalysisExact
  LateBindingSound
