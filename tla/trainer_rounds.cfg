\* Two workers, two trainings each, two terms, one retry and one replaced pod.
CONSTANTS
    Worker = {w1, w2}
    MaxTerm = 2
    MaxTrainings = 2
    MaxRetries = 1
    MaxReplaced = 1
SPECIFICATION FairSpec
INVARIANTS TypeOK AveragedOnce OneModelPerRound
PROPERTIES Contributes NobodyHangs
\* The run ends with the last training.
CHECK_DEADLOCK FALSE
