SPECIFICATION Spec
CONSTANTS
    Request = {r1, r2, r3}
    q1 = q1
    q2 = q2
    q3 = q3
    Question = {q1, q2, q3}
    Similar <- MCSimilar
    s1 = s1
    Session = {s1}
    NoSession = NoSession
    NoAnswer = NoAnswer
    Bodies <- MixedBodies
    Turns = 2
SYMMETRY Symmetry
INVARIANTS
    TypeOK
    ServedAnswerFits
    RowsFollowTheTurn
    LateOnlyWhileRecording
    ChatCachesWhatItRecorded
    NextTurnSeesTheLast
CHECK_DEADLOCK FALSE
