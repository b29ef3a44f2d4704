SPECIFICATION Spec
CONSTANTS
    v1 = v1
    v2 = v2
    t1 = t1
    t2 = t2
    view = view
    mouse = mouse
    elevated = elevated
    Nobody = Nobody
    Viewers = {v1, v2}
    Standard = {view, mouse}
    Elevated = elevated
    Requests <- All
    Answers <- Some
    Tasks = {t1, t2}
    MaxFailures = 2
    MaxGlobal = 2
    Window = 2
    Lockout = 2
    ResumeWindow = 2
    RotateAfter = TRUE
    MaxIncoming = 3
    MaxChanges = 2
    MaxTime = 2
INVARIANTS Consistent GuessesArePaced PasswordDies
PROPERTIES ImplementsPolicy
CHECK_DEADLOCK FALSE
SYMMETRY Symmetry
CONSTRAINT Together
