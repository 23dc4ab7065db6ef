SPECIFICATION Spec
CONSTANTS
    MinGreen = 6
    MaxGreen = 6
    ElapsedMax = 5
INVARIANT RedServed
