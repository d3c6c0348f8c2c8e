\* One student, and one change of the question.
CONSTANTS
    Students = {s1}
    s1 = s1
    None = None
    Dtos <- MCDtos
    Patches <- MCPatches
    Replies <- MCReplies
    MaxEdits = 1

SPECIFICATION Spec
INVARIANTS TypeOK ValidationSuffices SheetAgrees
PROPERTIES ScoreWithinMarks FullMarksIfRight
