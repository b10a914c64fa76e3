\* One chat of either type, everything a player may press or type in it.
SPECIFICATION Spec
INVARIANTS OfferedIsUnderstood
PROPERTIES OnlyCurrentTakesStartAway
