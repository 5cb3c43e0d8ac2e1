--------------------------- MODULE VersionCompare ---------------------------
(***************************************************************************)
(* compare_versions (tmpl_updateagent.cpp:173-187), by which the boot      *)
(* synchronisation tells whether the inventory of the OEM partition is     *)
(* newer (248), over the version strings of any two inventory files.  One  *)
(* step is one turn of its loop.  A string is a sequence of tokens: a      *)
(* number, as strtol takes it, a dot, or a character of another kind.      *)
(***************************************************************************)
EXTENDS Integers, Sequences, FiniteSets

CONSTANT Strings        \* the version strings

Dot == -1
Junk == -2

\* No two numbers side by side: they would be one.
ASSUME StringsAssumption ==
    /\ Strings \subseteq Seq(Nat \cup {Dot, Junk})
    /\ \A s \in Strings : \A i \in 1..Len(s) - 1 : ~(s[i] \in Nat /\ s[i + 1] \in Nat)

VARIABLES
    text,       \* the strings compared
    rest,       \* what is left of them: the pointers a and b
    order       \* 1, 0 or -1 once the function has returned

vars == <<text, rest, order>>

Sides == {"a", "b"}
Open == -2

VersionsTypeOK ==
    /\ text \in [Sides -> Strings]
    /\ \A x \in Sides : \E n \in 0..Len(text[x]) : rest[x] = SubSeq(text[x], n + 1, Len(text[x]))
    /\ order \in {1, 0, -1, Open}

CompareInit == text \in [Sides -> Strings] /\ rest = text /\ order = Open

-----------------------------------------------------------------------------
Starts(s, tokens) == s # <<>> /\ Head(s) \in tokens

\* strtol: the value, and where it leaves the pointer; without digits both are 0.
ValueOf(s) == IF Starts(s, Nat) THEN Head(s) ELSE 0
AfterNumber(s) == IF Starts(s, Nat) THEN Tail(s) ELSE s

\* Mutant: the dot is taken only after digits.
NextPartAfterDigits(s) ==
    IF Starts(s, Nat) /\ Starts(Tail(s), {Dot}) THEN Tail(Tail(s)) ELSE AfterNumber(s)

\* The number and one dot after it.
NextPart(s) ==
    IF Starts(AfterNumber(s), {Dot}) THEN Tail(AfterNumber(s)) ELSE AfterNumber(s)

\* Mutant: the difference is returned.
Difference(x, y) == x - y

Sign(x, y) == IF x > y THEN 1 ELSE IF x < y THEN -1 ELSE 0

\* Mutant: the loop ends with the shorter string.
ShorterDone == \E x \in Sides : rest[x] = <<>>

Done == \A x \in Sides : rest[x] = <<>>

ReturnEqual ==
    /\ order = Open /\ Done
    /\ order' = 0
    /\ UNCHANGED <<text, rest>>

ReturnOrder ==
    /\ order = Open /\ ~Done
    /\ ValueOf(rest["a"]) # ValueOf(rest["b"])
    /\ order' = Sign(ValueOf(rest["a"]), ValueOf(rest["b"]))
    /\ UNCHANGED <<text, rest>>

\* Mutant: the dots are taken only when both strings have one.
NextPartsTogether ==
    /\ order = Open /\ ~Done
    /\ ValueOf(rest["a"]) = ValueOf(rest["b"])
    /\ rest' = IF \A x \in Sides : Starts(AfterNumber(rest[x]), {Dot})
               THEN [x \in Sides |-> NextPart(rest[x])]
               ELSE [x \in Sides |-> AfterNumber(rest[x])]
    /\ UNCHANGED <<text, order>>

NextParts ==
    /\ order = Open /\ ~Done
    /\ ValueOf(rest["a"]) = ValueOf(rest["b"])
    /\ rest' = [x \in Sides |-> NextPart(rest[x])]
    /\ UNCHANGED <<text, order>>

CompareNext == ReturnEqual \/ ReturnOrder \/ NextParts

\* The loop of one thread.
CompareSpec == CompareInit /\ [][CompareNext]_vars /\ WF_vars(CompareNext)

-----------------------------------------------------------------------------
(* Properties.                                                             *)

\* Part k of a string: the number between its dots k - 1 and k, 0 if there is none.
DotsBefore(s, i) == Cardinality({j \in 1..i - 1 : s[j] = Dot})
Part(s, k) ==
    LET here == {i \in DOMAIN s : s[i] \in Nat /\ DotsBefore(s, i) = k - 1}
    IN  IF here = {} THEN 0 ELSE s[CHOOSE i \in here : TRUE]

Parts == 1..Len(text["a"]) + Len(text["b"]) + 1
Differing == {k \in Parts : Part(text["a"], k) # Part(text["b"], k)}
First(k) == k \in Differing /\ \A l \in Differing : k <= l

Numeric == \A x \in Sides : Junk \notin {text[x][i] : i \in DOMAIN text[x]}

\* The result is the order of the first parts that differ, strings of unequal length
\* and empty parts filled up with 0: 1.0 is 1, 1..2 is older than 1.1
\* (tmpl_updateagent.cpp:175-186).
CompareRight ==
    Numeric /\ order # Open =>
      /\ (order = 0) = (Differing = {})
      /\ (order = 1) = (\E k \in Parts : First(k) /\ Part(text["a"], k) > Part(text["b"], k))

Advances == \A x \in Sides : rest[x] # <<>> => Len(rest'[x]) < Len(rest[x])

\* No turn of the loop leaves a string of numbers and dots as long as it was, not one
\* that stands at a dot, nor one of two that the other has outrun
\* (tmpl_updateagent.cpp:175-185).
TurnsAdvance == [][Numeric /\ order' = Open => Advances]_vars

\* The comparison returns on all strings of numbers and dots, however many of them
\* stand side by side, and when one of the two ends first
\* (tmpl_updateagent.cpp:175).  Nothing is said of strings with another character:
\* the loop goes round at it for ever, unless a difference before it ends it.
CompareEnds == Numeric => <>(order # Open)
=============================================================================
