\* A message ends in the results or is dropped: the system may stop.
SPECIFICATION Spec
CONSTANTS
    MaxExact = 7
    Printable <- ThreeDigits
    MaxInt = 200
    Precision = 128
    MaxDouble = 256
    Numbers <- EdgeNumbers
    Floats <- EdgeFloats
    RetryLimits = {0, 4}
    Multipliers <- EdgeMultipliers
    Null = Null
CHECK_DEADLOCK FALSE
INVARIANTS
    TypeOK
    FieldsMatchPlace
    SurvivesScripts
    WorkerSeesOriginal
PROPERTIES
    BackoffGrows
