SPECIFICATION Spec
CONSTANTS
    t1 = t1  t2 = t2  r1 = r1  r2 = r2  Run = Run
    Trials = {t1}  Resumes = {r1, r2}  MaxBoots = 2
INVARIANTS FinalizedHasEvidence OneTerminalReceipt SuccessHasEvidence IncompleteNeedsFault
SYMMETRY Symmetry
CHECK_DEADLOCK FALSE
