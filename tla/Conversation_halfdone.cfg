SPECIFICATION Spec
CONSTANTS
    Request = {r1, r2}
    q1 = q1
    q2 = q2
    q3 = q3
    Question = {q1, q2, q3}
    Similar <- MCSimilar
    s1 = s1
    Session = {s1}
    NoSession = NoSession
    NoAnswer = NoAnswer
    Bodies <- ChatBodies
    Turns = 4
INVARIANTS
    NothingHalfDone
CHECK_DEADLOCK FALSE
