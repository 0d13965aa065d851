\* LangState over four languages (every EnumSet of them, including the
\* gapped ones of scenario S7), two get_mut mutations per language.
CONSTANTS
  Lang = {0, 1, 2, 3}
  MaxUses = 2
  OK = OK

SPECIFICATION Spec
INVARIANT TypeOK
INVARIANT SlotLayout
INVARIANT LeakOnlyOnFailure
PROPERTY LangContract
\* The lifecycle ends: finished, new() failed, or get_mut's assert panicked.
CHECK_DEADLOCK FALSE
