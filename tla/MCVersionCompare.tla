-------------------------- MODULE MCVersionCompare --------------------------
(* The instance of VersionCompare for TLC. *)
EXTENDS VersionCompare, SequencesExt

CONSTANTS Numbers, MaxLength

\* All strings of up to MaxLength tokens.
ShortStrings ==
    {s \in SeqOf(Numbers \cup {Dot, Junk}, MaxLength) :
       \A i \in 1..Len(s) - 1 : ~(s[i] \in Nat /\ s[i + 1] \in Nat)}
=============================================================================
