SPECIFICATION Spec
CONSTANT Checked <- Functions
INVARIANTS NothingMissed NoFalseAlarm OutcomesCovered
