SPECIFICATION Spec
INVARIANTS
    FieldIsExact
    FftEvaluates
    ParametersFit
