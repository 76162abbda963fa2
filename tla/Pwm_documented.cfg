SPECIFICATION PwmSpec
CONSTANT Size = 4
INVARIANT DocumentedDuty
