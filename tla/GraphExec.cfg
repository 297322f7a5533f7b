SPECIFICATION Spec
CONSTANT Operations <- MCOperations
INVARIANTS
  Propagation
  NoSilentLoss
PROPERTIES
  AnswersBySchema
