\* Every flag string of up to three bytes over the letters, 'a', '-' and
\* one byte the parser ignores.
CONSTANTS
  Bytes = {"f", "g", "l", "a", "-", "x"}
  MaxLen = 3

SPECIFICATION Spec
INVARIANT ParsesAsDescribed
\* parse_optflags returns: the state with done = TRUE is its last.
CHECK_DEADLOCK FALSE
