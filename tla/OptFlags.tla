------------------------------ MODULE OptFlags ------------------------------
(***************************************************************************)
(* parse_optflags of optimize.rs: the flag string of a compilation is read *)
(* byte by byte into an EnumSet<OptFlag>, then complemented if it starts   *)
(* with '-'.  Bytes are model values drawn from Bytes; the loop is one     *)
(* Scan step per byte and a Complement step after it.                      *)
(***************************************************************************)
EXTENDS Integers, SequencesExt

CONSTANTS
  Bytes,       \* the bytes an input may hold: the flag letters, '-', others
  MaxLen       \* bound on the length of the input

OptFlag == {"FOLD", "GOTO", "INLINE", "LOOP", "PHI", "SWITCH"}

\* The match arms of the loop: the flags a byte inserts; {} is `continue`.
Letter == [f |-> {"FOLD"}, g |-> {"GOTO"}, i |-> {"INLINE"}, l |-> {"LOOP"},
           p |-> {"PHI"}, s |-> {"SWITCH"}, a |-> OptFlag]
Select(b) == IF b \in DOMAIN Letter THEN Letter[b] ELSE {}

VARIABLES
  flags,       \* the &[u8] argument
  i,           \* the position of the for loop
  oflg,        \* the accumulated EnumSet
  done         \* parse_optflags has returned oflg

vars == <<flags, i, oflg, done>>

Init ==
  /\ flags \in BoundedSeq(Bytes, MaxLen)
  /\ i = 1 /\ oflg = {} /\ done = FALSE

\* for &f in flags { oflg.insert_all(match f { ... _ => continue }) }
Scan ==
  /\ i <= Len(flags)
  /\ oflg' = oflg \cup Select(flags[i])
  /\ i' = i + 1
  /\ UNCHANGED <<flags, done>>

\* Seeded fault: the '-' test looks at the last byte instead of the first.
ComplementLast ==
  /\ i > Len(flags) /\ ~done
  /\ oflg' = IF flags # <<>> /\ flags[Len(flags)] = "-" THEN OptFlag \ oflg ELSE oflg
  /\ done' = TRUE
  /\ UNCHANGED <<flags, i>>

\* if flags.get(0) == Some(&b'-') { oflg = oflg.complement() }
Complement ==
  /\ i > Len(flags) /\ ~done
  /\ oflg' = IF flags # <<>> /\ flags[1] = "-" THEN OptFlag \ oflg ELSE oflg
  /\ done' = TRUE
  /\ UNCHANGED <<flags, i>>

Next == Scan \/ Complement

Spec == Init /\ [][Next]_vars /\ WF_vars(Next)

(***************************************************************************)
(* Properties.                                                             *)
(***************************************************************************)
\* The flag language of the specification (section 7): f, g, i, l, p and s
\* each select one flag and a selects all of them; the set is complemented
\* when the string is introduced by '-'; a '-' anywhere else, and every
\* unknown byte, selects nothing.
SpecFlag == [f |-> "FOLD", g |-> "GOTO", i |-> "INLINE", l |-> "LOOP", p |-> "PHI", s |-> "SWITCH"]
Described(str) ==
  LET chars == Range(str)
      sel   == {SpecFlag[c] : c \in chars \cap DOMAIN SpecFlag}
               \cup (IF "a" \in chars THEN OptFlag ELSE {})
  IN IF str # <<>> /\ Head(str) = "-" THEN OptFlag \ sel ELSE sel

(* When parse_optflags returns, its set is the one the flag string        *)
(* describes: "fg" gives {FOLD, GOTO}, "-l" all but LOOP, "-" all flags,  *)
(* "a-" all flags, "x" none.                                              *)
ParsesAsDescribed == done => oflg = Described(flags)
=============================================================================
