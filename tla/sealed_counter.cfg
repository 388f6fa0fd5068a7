CONSTANT MaxVersion = 3
SPECIFICATION Spec
INVARIANT RefusedOnlyIfOverlapped
PROPERTY ReadIsCurrent
