------------------------ MODULE VersionCompareProofs ------------------------
(* The comparison is right for every two strings of numbers and dots, its   *)
(* turns get on, and the order it computes is one.                         *)
EXTENDS VersionCompare, FiniteSetTheorems, SequenceTheorems, WellFoundedInduction, TLAPS

Tokens == Nat \cup {Dot, Junk}

\* A string of numbers and dots.
Clean(s) ==
    /\ s \in Seq(Tokens)
    /\ \A i \in 1..Len(s) : s[i] \in Nat \/ s[i] = Dot
    /\ \A i \in 1..Len(s) - 1 : ~(s[i] \in Nat /\ s[i + 1] \in Nat)

\* The first n tokens of s are its first k parts with their dots.
At(s, n, k) ==
    /\ n \in 0..Len(s)
    /\ \A i \in 1..n : s[i] \in Nat => DotsBefore(s, i) < k
    /\ n < Len(s) => DotsBefore(s, n + 1) = k

From(s, n) == SubSeq(s, n + 1, Len(s))

-----------------------------------------------------------------------------
(* Counting dots.                                                          *)

LEMMA DotsFinite ==
    ASSUME NEW s, NEW i \in Nat \ {0}
    PROVE  /\ IsFiniteSet({j \in 1..i - 1 : s[j] = Dot})
           /\ DotsBefore(s, i) \in 0..i - 1
<1>1. IsFiniteSet(1..i - 1) /\ Cardinality(1..i - 1) = i - 1
  BY FS_Interval
<1>2. {j \in 1..i - 1 : s[j] = Dot} \in SUBSET (1..i - 1)
  OBVIOUS
<1>3. /\ IsFiniteSet({j \in 1..i - 1 : s[j] = Dot})
      /\ Cardinality({j \in 1..i - 1 : s[j] = Dot}) <= i - 1
  BY <1>1, <1>2, FS_Subset
<1>4. Cardinality({j \in 1..i - 1 : s[j] = Dot}) \in Nat
  BY <1>3, FS_CardinalityType
<1>. QED BY <1>3, <1>4 DEF DotsBefore

LEMMA DotsNext ==
    ASSUME NEW s, NEW i \in Nat \ {0}
    PROVE  DotsBefore(s, i + 1) = DotsBefore(s, i) + (IF s[i] = Dot THEN 1 ELSE 0)
<1>. DEFINE D(n) == {j \in 1..n - 1 : s[j] = Dot}
<1>1. IsFiniteSet(D(i)) /\ DotsBefore(s, i) \in Nat
  BY DotsFinite
<1>2. CASE s[i] = Dot
  <2>1. D(i + 1) = D(i) \cup {i} /\ i \notin D(i)
    BY <1>2
  <2>2. Cardinality(D(i) \cup {i}) = Cardinality(D(i)) + 1
    BY <1>1, <2>1, FS_AddElement
  <2>. QED BY <1>2, <2>1, <2>2 DEF DotsBefore
<1>3. CASE s[i] # Dot
  <2>1. D(i + 1) = D(i)
    BY <1>3
  <2>2. DotsBefore(s, i + 1) = DotsBefore(s, i)
    BY <2>1 DEF DotsBefore
  <2>. QED BY <1>1, <1>3, <2>2
<1>. QED BY <1>2, <1>3

LEMMA DotsGrow ==
    ASSUME NEW s, NEW i \in Nat \ {0}, NEW j \in Nat, i <= j
    PROVE  DotsBefore(s, i) <= DotsBefore(s, j)
<1>1. {l \in 1..i - 1 : s[l] = Dot} \in SUBSET {l \in 1..j - 1 : s[l] = Dot}
  OBVIOUS
<1>2. IsFiniteSet({l \in 1..j - 1 : s[l] = Dot})
  <2>1. j \in Nat \ {0}
    OBVIOUS
  <2>. QED BY <2>1, DotsFinite
<1>. QED BY <1>1, <1>2, FS_Subset DEF DotsBefore

-----------------------------------------------------------------------------
(* One turn of the loop takes one part.                                    *)

LEMMA RestTokens ==
    ASSUME NEW s \in Seq(Tokens), NEW n \in 0..Len(s)
    PROVE  /\ n = Len(s) => From(s, n) = <<>>
           /\ n < Len(s) => /\ From(s, n) # <<>>
                            /\ Head(From(s, n)) = s[n + 1]
                            /\ Tail(From(s, n)) = From(s, n + 1)
<1>1. Len(s) \in Nat
  BY LenProperties
<1>2. CASE n = Len(s)
  BY <1>1, <1>2, SubSeqEmpty DEF From
<1>3. CASE n < Len(s)
  <2>1. n + 1 \in 1..Len(s) /\ Len(s) \in n + 1..Len(s)
    BY <1>1, <1>3
  <2>2. Head(From(s, n)) = s[n + 1] /\ Tail(From(s, n)) = From(s, n + 1)
    BY <2>1, HeadTailOfSubSeq DEF From
  <2>3. Len(From(s, n)) = Len(s) - n
    <3>1. \A i \in n + 1..Len(s) : s[i] \in Tokens
      BY <1>1, ElementOfSeq
    <3>. QED BY <1>1, <2>1, <3>1, SubSeqProperties DEF From
  <2>. QED BY <1>1, <1>3, <2>2, <2>3, EmptySeq
<1>. QED BY <1>1, <1>2, <1>3

\* The number the loop reads is that of the part.
LEMMA ValueIsPart ==
    ASSUME NEW s, Clean(s), NEW n \in 0..Len(s), NEW k \in Nat, At(s, n, k)
    PROVE  ValueOf(From(s, n)) = Part(s, k + 1)
<1>. DEFINE here == {i \in DOMAIN s : s[i] \in Nat /\ DotsBefore(s, i) = k}
<1>1. Len(s) \in Nat /\ DOMAIN s = 1..Len(s)
  BY LenProperties DEF Clean
<1>2. Part(s, k + 1) = IF here = {} THEN 0 ELSE s[CHOOSE i \in here : TRUE]
  BY DEF Part
<1>3. \A i \in here : i > n
  BY <1>1 DEF At
<1>4. CASE n = Len(s)
  <2>1. here = {}
    BY <1>1, <1>3, <1>4
  <2>2. From(s, n) = <<>>
    BY <1>4, RestTokens DEF Clean
  <2>. QED BY <1>2, <2>1, <2>2 DEF ValueOf, Starts
<1>5. CASE n < Len(s) /\ s[n + 1] = Dot
  <2>1. DotsBefore(s, n + 2) = k + 1
    <3>1. n + 1 \in Nat \ {0} /\ (n + 1) + 1 = n + 2
      BY <1>1
    <3>. QED BY <1>5, <3>1, DotsNext DEF At
  <2>2. \A i \in here : FALSE
    <3>1. SUFFICES ASSUME NEW i \in here PROVE FALSE
      OBVIOUS
    <3>2. i # n + 1
      BY <1>5 DEF Dot
    <3>3. i \in Nat /\ n + 2 <= i /\ n + 2 \in Nat \ {0}
      BY <1>1, <1>3, <3>2
    <3>4. DotsBefore(s, n + 2) <= DotsBefore(s, i)
      BY <3>3, DotsGrow
    <3>. QED BY <2>1, <3>4
  <2>3. ValueOf(From(s, n)) = 0
    BY <1>5, RestTokens DEF Clean, ValueOf, Starts, Dot
  <2>. QED BY <1>2, <2>2, <2>3
<1>6. CASE n < Len(s) /\ s[n + 1] \in Nat
  <2>1. n + 1 \in here
    BY <1>1, <1>6 DEF At
  <2>2. \A i \in here : i = n + 1
    <3>1. SUFFICES ASSUME NEW i \in here, i # n + 1 PROVE FALSE
      OBVIOUS
    <3>2. i \in n + 2..Len(s)
      BY <1>1, <1>3, <3>1
    <3>3. s[n + 2] = Dot
      <4>1. n + 1 \in 1..Len(s) - 1 /\ n + 2 \in 1..Len(s) /\ (n + 1) + 1 = n + 2
        BY <1>1, <3>2
      <4>. QED BY <1>6, <4>1 DEF Clean
    <3>4. i # n + 2
      BY <3>3 DEF Dot
    <3>5. DotsBefore(s, n + 3) = k + 1
      <4>1. /\ n + 1 \in Nat \ {0} /\ (n + 1) + 1 = n + 2
            /\ n + 2 \in Nat \ {0} /\ (n + 2) + 1 = n + 3
        BY <1>1
      <4>2. DotsBefore(s, n + 2) = k
        <5>1. s[n + 1] # Dot
          BY <1>6 DEF Dot
        <5>. QED BY <1>6, <4>1, <5>1, DotsNext DEF At
      <4>. QED BY <3>3, <4>1, <4>2, DotsNext
    <3>6. DotsBefore(s, n + 3) <= DotsBefore(s, i)
      <4>1. i \in Nat /\ n + 3 <= i /\ n + 3 \in Nat \ {0}
        BY <1>1, <3>2, <3>4
      <4>. QED BY <4>1, DotsGrow
    <3>. QED BY <3>5, <3>6
  <2>3. (CHOOSE i \in here : TRUE) = n + 1
    BY <2>1, <2>2
  <2>4. ValueOf(From(s, n)) = s[n + 1]
    BY <1>6, RestTokens DEF Clean, ValueOf, Starts
  <2>. QED BY <1>2, <2>1, <2>3, <2>4
<1>. QED
  <2>. HIDE DEF here
  <2>1. n < Len(s) => s[n + 1] \in Nat \/ s[n + 1] = Dot
    BY <1>1 DEF Clean
  <2>2. n = Len(s) \/ n < Len(s)
    <3>1. Len(s) \in Nat
      BY <1>1
    <3>. QED BY <3>1
  <2>. QED BY <1>4, <1>5, <1>6, <2>1, <2>2

\* A turn leaves a rest of the string, whatever its tokens.
LEMMA NextIsRest ==
    ASSUME NEW s \in Seq(Tokens), NEW n \in 0..Len(s)
    PROVE  \E m \in 0..Len(s) : NextPart(From(s, n)) = From(s, m)
<1>. DEFINE Suffix(r) == \E m \in 0..Len(s) : r = From(s, m)
<1>1. Len(s) \in Nat
  BY LenProperties
<1>2. ASSUME NEW r, Suffix(r), r # <<>> PROVE Suffix(Tail(r))
  <2>1. PICK m \in 0..Len(s) : r = From(s, m)
    BY <1>2
  <2>2. m # Len(s)
    BY <1>2, <2>1, RestTokens
  <2>3. m + 1 \in 0..Len(s) /\ Tail(r) = From(s, m + 1)
    BY <1>1, <2>1, <2>2, RestTokens
  <2>. QED BY <2>3
<1>3. Suffix(From(s, n))
  OBVIOUS
<1>4. Suffix(AfterNumber(From(s, n)))
  BY <1>2, <1>3 DEF AfterNumber, Starts
<1>5. Suffix(NextPart(From(s, n)))
  BY <1>2, <1>4 DEF NextPart, Starts
<1>. QED BY <1>5

\* A turn takes the next part of a string of numbers and dots.
LEMMA NextIsPart ==
    ASSUME NEW s, Clean(s), NEW n \in 0..Len(s), NEW k \in Nat, At(s, n, k)
    PROVE  \E m \in 0..Len(s) : NextPart(From(s, n)) = From(s, m) /\ At(s, m, k + 1)
<1>1. Len(s) \in Nat /\ s \in Seq(Tokens)
  BY LenProperties DEF Clean
<1>2. \A i \in 1..n : s[i] \in Nat => DotsBefore(s, i) < k + 1
  <2>1. \A i \in Nat \ {0} : DotsBefore(s, i) \in 0..i - 1
    BY DotsFinite
  <2>2. \A i \in 1..n : i \in Nat \ {0} /\ DotsBefore(s, i) \in Int
    BY <1>1, <2>1
  <2>. QED BY <2>2 DEF At
<1>3. CASE n = Len(s)
  <2>1. NextPart(From(s, n)) = From(s, n)
    BY <1>1, <1>3, RestTokens DEF NextPart, AfterNumber, Starts
  <2>. QED BY <1>1, <1>2, <1>3, <2>1 DEF At
<1>4. CASE n < Len(s) /\ s[n + 1] = Dot
  <2>1. NextPart(From(s, n)) = From(s, n + 1)
    <3>1. From(s, n) # <<>> /\ Head(From(s, n)) = Dot /\ Tail(From(s, n)) = From(s, n + 1)
      BY <1>1, <1>4, RestTokens
    <3>2. AfterNumber(From(s, n)) = From(s, n)
      BY <3>1 DEF AfterNumber, Starts, Dot
    <3>. QED BY <3>1, <3>2 DEF NextPart, Starts
  <2>2. n + 1 \in Nat \ {0} /\ n + 1 \in 0..Len(s)
    BY <1>1, <1>4
  <2>3. DotsBefore(s, (n + 1) + 1) = k + 1
    BY <1>4, <2>2, DotsNext DEF At
  <2>4. \A i \in 1..n + 1 : s[i] \in Nat => i \in 1..n
    BY <1>4 DEF Dot
  <2>5. At(s, n + 1, k + 1)
    BY <1>2, <2>2, <2>3, <2>4 DEF At
  <2>. QED BY <2>1, <2>2, <2>5
<1>5. CASE n < Len(s) /\ s[n + 1] \in Nat
  <2>1. AfterNumber(From(s, n)) = From(s, n + 1)
    BY <1>1, <1>5, RestTokens DEF AfterNumber, Starts
  <2>2. n + 1 \in Nat \ {0} /\ n + 1 \in 0..Len(s)
    BY <1>1, <1>5
  <2>3. DotsBefore(s, n + 1) = k
    BY <1>5 DEF At
  <2>4. \A i \in 1..n + 1 : s[i] \in Nat => DotsBefore(s, i) < k + 1
    BY <1>2, <2>3
  <2>5. CASE n + 1 = Len(s)
    <3>1. NextPart(From(s, n)) = From(s, n + 1)
      BY <1>1, <2>1, <2>2, <2>5, RestTokens DEF NextPart, Starts
    <3>. QED BY <2>2, <2>4, <2>5, <3>1 DEF At
  <2>6. CASE n + 1 < Len(s)
    <3>1. n + 1 \in 1..Len(s) - 1 /\ (n + 1) + 1 = n + 2 /\ (n + 2) + 1 = n + 3
      BY <1>1, <2>2, <2>6
    <3>2. s[n + 2] = Dot /\ n + 2 \in Nat \ {0} /\ n + 2 \in 0..Len(s)
      BY <1>1, <1>5, <2>6, <3>1 DEF Clean
    <3>3. NextPart(From(s, n)) = From(s, n + 2)
      BY <1>1, <2>1, <2>2, <2>6, <3>1, <3>2, RestTokens DEF NextPart, Starts
    <3>4. s[n + 1] # Dot
      BY <1>5 DEF Dot
    <3>5. DotsBefore(s, n + 2) = k
      BY <2>2, <2>3, <3>1, <3>4, DotsNext
    <3>6. DotsBefore(s, n + 3) = k + 1
      BY <3>1, <3>2, <3>5, DotsNext
    <3>7. \A i \in 1..n + 2 : s[i] \in Nat => i \in 1..n + 1
      BY <3>2 DEF Dot
    <3>8. At(s, n + 2, k + 1)
      BY <2>4, <3>1, <3>2, <3>6, <3>7 DEF At
    <3>. QED BY <3>2, <3>3, <3>8
  <2>. QED BY <1>1, <2>2, <2>5, <2>6
<1>. QED
  <2>1. n < Len(s) => s[n + 1] \in Nat \/ s[n + 1] = Dot
    BY <1>1 DEF Clean
  <2>2. n = Len(s) \/ n < Len(s)
    BY <1>1
  <2>. QED BY <1>3, <1>4, <1>5, <2>1, <2>2

\* Once a string is used up all further parts are 0.
LEMMA NoMoreParts ==
    ASSUME NEW s, Clean(s), NEW k \in Nat, At(s, Len(s), k), NEW l \in Nat, l > k
    PROVE  Part(s, l) = 0
<1>1. Len(s) \in Nat /\ DOMAIN s = 1..Len(s)
  BY LenProperties DEF Clean
<1>2. {i \in DOMAIN s : s[i] \in Nat /\ DotsBefore(s, i) = l - 1} = {}
  BY <1>1 DEF At
<1>. QED BY <1>2 DEF Part

-----------------------------------------------------------------------------
(* The invariant.                                                          *)

\* The first k parts were equal, and the rests follow them.
Turns(k) ==
    /\ \A x \in Sides : \E n \in 0..Len(text[x]) : rest[x] = From(text[x], n) /\ At(text[x], n, k)
    /\ \A l \in 1..k : Part(text["a"], l) = Part(text["b"], l)

TurnsInv == Numeric /\ order = Open => \E k \in Nat : Turns(k)

LEMMA StringsAreSeqs ==
    ASSUME NEW s \in Strings PROVE s \in Seq(Tokens)
  BY StringsAssumption DEF Tokens

LEMMA NumericIsClean ==
    ASSUME text \in [Sides -> Strings], Numeric, NEW x \in Sides
    PROVE  Clean(text[x])
<1>1. text[x] \in Strings /\ text[x] \in Seq(Tokens)
  BY StringsAreSeqs
<1>2. \A i \in 1..Len(text[x]) : text[x][i] \in Tokens /\ text[x][i] # Junk
  BY <1>1, ElementOfSeq, LenProperties DEF Numeric
<1>. QED BY <1>1, <1>2, StringsAssumption DEF Clean, Tokens

LEMMA CompareInitially ==
    ASSUME CompareInit PROVE VersionsTypeOK /\ TurnsInv /\ CompareRight
<1>. USE DEF CompareInit
<1>1. ASSUME NEW s \in Seq(Tokens) PROVE 0 \in 0..Len(s) /\ s = From(s, 0) /\ At(s, 0, 0)
  <2>1. Len(s) \in Nat
    BY LenProperties
  <2>2. DotsBefore(s, 1) = 0
    <3>1. PICK i \in Nat \ {0} : i = 1
      OBVIOUS
    <3>2. DotsBefore(s, i) \in 0..i - 1
      BY DotsFinite
    <3>. QED BY <3>1, <3>2
  <2>. QED BY <2>1, <2>2, SubSeqFull DEF From, At
<1>2. \A x \in Sides : text[x] \in Seq(Tokens)
  BY StringsAreSeqs
<1>3. Turns(0)
  BY <1>1, <1>2 DEF Turns
<1>. QED BY <1>1, <1>2, <1>3 DEF VersionsTypeOK, TurnsInv, CompareRight, From, Open

LEMMA CompareTypePreserved ==
    ASSUME VersionsTypeOK, [CompareNext]_vars
    PROVE  VersionsTypeOK'
<1>1. CASE UNCHANGED vars
  BY <1>1 DEF vars, VersionsTypeOK
<1>2. CASE ReturnEqual
  BY <1>2 DEF ReturnEqual, VersionsTypeOK
<1>3. CASE ReturnOrder
  BY <1>3 DEF ReturnOrder, Sign, VersionsTypeOK
<1>4. CASE NextParts
  <2>1. \A x \in Sides : \E n \in 0..Len(text[x]) : rest'[x] = From(text[x], n)
    <3>1. SUFFICES ASSUME NEW x \in Sides
                   PROVE  \E n \in 0..Len(text[x]) : rest'[x] = From(text[x], n)
      OBVIOUS
    <3>2. text[x] \in Seq(Tokens)
      BY StringsAreSeqs DEF VersionsTypeOK
    <3>3. PICK n \in 0..Len(text[x]) : rest[x] = From(text[x], n)
      BY DEF VersionsTypeOK, From
    <3>4. rest'[x] = NextPart(From(text[x], n))
      BY <1>4, <3>3 DEF NextParts
    <3>. QED BY <3>2, <3>4, NextIsRest
  <2>. QED BY <1>4, <2>1 DEF NextParts, VersionsTypeOK, From
<1>. QED BY <1>1, <1>2, <1>3, <1>4 DEF CompareNext

LEMMA TurnsPreserved ==
    ASSUME VersionsTypeOK, TurnsInv, [CompareNext]_vars
    PROVE  TurnsInv'
<1>1. CASE UNCHANGED vars
  BY <1>1 DEF vars, TurnsInv, Turns, Numeric
<1>2. CASE ReturnEqual \/ ReturnOrder
  BY <1>2 DEF ReturnEqual, ReturnOrder, Sign, TurnsInv, Open
<1>3. CASE NextParts
  <2>1. SUFFICES ASSUME Numeric PROVE \E k \in Nat : Turns(k)'
    BY <1>3 DEF NextParts, TurnsInv, Numeric
  <2>2. PICK k \in Nat : Turns(k)
    BY <1>3, <2>1 DEF NextParts, TurnsInv
  <2>3. \A x \in Sides : Clean(text[x])
    BY <2>1, NumericIsClean DEF VersionsTypeOK
  <2>4. \A x \in Sides : ValueOf(rest[x]) = Part(text[x], k + 1)
    BY <2>2, <2>3, ValueIsPart DEF Turns
  <2>5. Part(text["a"], k + 1) = Part(text["b"], k + 1)
    BY <1>3, <2>4 DEF NextParts, Sides
  <2>6. \A l \in 1..k + 1 : Part(text["a"], l) = Part(text["b"], l)
    BY <2>2, <2>5 DEF Turns
  <2>7. \A x \in Sides : \E n \in 0..Len(text[x]) :
          rest'[x] = From(text[x], n) /\ At(text[x], n, k + 1)
    <3>1. \A x \in Sides : rest'[x] = NextPart(rest[x])
      BY <1>3 DEF NextParts
    <3>. QED BY <2>2, <2>3, <3>1, NextIsPart DEF Turns
  <2>8. Turns(k + 1)'
    BY <1>3, <2>6, <2>7 DEF NextParts, Turns
  <2>. QED BY <2>8
<1>. QED BY <1>1, <1>2, <1>3 DEF CompareNext

\* The parts of a string are numbers.
LEMMA PartIsNat ==
    ASSUME NEW s, NEW k PROVE Part(s, k) \in Nat
<1>. DEFINE here == {i \in DOMAIN s : s[i] \in Nat /\ DotsBefore(s, i) = k - 1}
<1>1. here # {} => (CHOOSE i \in here : TRUE) \in here
  OBVIOUS
<1>. QED BY <1>1 DEF Part

LEMMA ReturnsRight ==
    ASSUME VersionsTypeOK, TurnsInv, CompareRight, [CompareNext]_vars
    PROVE  CompareRight'
<1>1. CASE UNCHANGED vars
  BY <1>1 DEF vars, CompareRight, Numeric, First, Differing, Parts
<1>2. CASE NextParts
  BY <1>2 DEF NextParts, CompareRight
<1>3. CASE (ReturnEqual \/ ReturnOrder) /\ Numeric
  <2>1. PICK k \in Nat : Turns(k)
    BY <1>3 DEF ReturnEqual, ReturnOrder, TurnsInv
  <2>2. \A x \in Sides : Clean(text[x]) /\ Len(text[x]) \in Nat
    BY <1>3, NumericIsClean, LenProperties DEF VersionsTypeOK, Clean
  <2>a. PICK p \in Nat, q \in Nat : p = Len(text["a"]) /\ q = Len(text["b"])
    BY <2>2 DEF Sides
  <2>b. Parts = 1..p + q + 1
    BY <2>a DEF Parts
  <2>3. text' = text /\ order = Open /\ Numeric'
    BY <1>3 DEF ReturnEqual, ReturnOrder, Numeric
  <2>4. CASE ReturnEqual
    <3>1. \A x \in Sides : At(text[x], Len(text[x]), k)
      <4>1. SUFFICES ASSUME NEW x \in Sides PROVE At(text[x], Len(text[x]), k)
        OBVIOUS
      <4>2. PICK n \in 0..Len(text[x]) : rest[x] = From(text[x], n) /\ At(text[x], n, k)
        BY <2>1 DEF Turns
      <4>3. From(text[x], n) = <<>>
        <5>1. rest[x] = <<>>
          BY ONLY <2>4, <4>1 DEF ReturnEqual, Done
        <5>2. rest[x] = From(text[x], n)
          BY ONLY <4>2
        <5>. QED BY ONLY <5>1, <5>2
      <4>4. n = Len(text[x])
        BY <2>2, <4>3, RestTokens DEF Clean
      <4>. QED BY <4>2, <4>4
    <3>2. \A l \in Nat : l > k => Part(text["a"], l) = 0 /\ Part(text["b"], l) = 0
      BY <2>2, <3>1, NoMoreParts DEF Sides
    <3>3. Parts \subseteq Nat \ {0}
      BY <2>b
    <3>4. \A l \in Parts : Part(text["a"], l) = Part(text["b"], l)
      BY <2>1, <3>2, <3>3 DEF Turns
    <3>5. Differing = {}
      BY <3>4 DEF Differing
    <3>6. Differing' = {} /\ order' = 0
      BY <2>3, <2>4, <3>5 DEF ReturnEqual, Differing, Parts
    <3>7. ~(\E l \in Parts' : First(l)')
      BY <3>6 DEF First
    <3>8. (order' = 0) = (Differing' = {}) /\ order' # 1
      BY <3>6
    <3>. QED BY <3>7, <3>8 DEF CompareRight
  <2>5. CASE ReturnOrder
    <3>1. \A x \in Sides : ValueOf(rest[x]) = Part(text[x], k + 1)
      BY <2>1, <2>2, ValueIsPart DEF Turns
    <3>2. Part(text["a"], k + 1) # Part(text["b"], k + 1)
      BY <2>5, <3>1 DEF ReturnOrder, Sides
    <3>3. k + 1 \in Parts
      <4>1. PICK x \in Sides : rest[x] # <<>>
        BY <2>5 DEF ReturnOrder, Done
      <4>2. PICK n \in 0..Len(text[x]) : rest[x] = From(text[x], n) /\ At(text[x], n, k)
        BY <2>1 DEF Turns
      <4>3. n < Len(text[x])
        BY <2>2, <4>1, <4>2, RestTokens DEF Clean
      <4>4. DotsBefore(text[x], n + 1) = k
        BY <4>2, <4>3 DEF At
      <4>5. n + 1 \in Nat \ {0} /\ DotsBefore(text[x], n + 1) \in 0..(n + 1) - 1
        <5>1. n + 1 \in Nat \ {0}
          BY <2>2
        <5>. QED BY <5>1, DotsFinite
      <4>6. k + 1 \in 1..Len(text[x])
        BY <2>2, <4>3, <4>4, <4>5
      <4>7. Len(text[x]) \in {p, q}
        BY <2>a DEF Sides
      <4>. QED BY <2>b, <4>6, <4>7
    <3>4. First(k + 1) /\ \A l : First(l) => l = k + 1
      <4>1. k + 1 \in Differing
        BY <3>2, <3>3 DEF Differing
      <4>2. \A l \in Differing : l \in Nat /\ k + 1 <= l
        BY <2>1, <2>2 DEF Differing, Parts, Turns, Sides
      <4>. QED BY <4>1, <4>2 DEF First
    <3>5. /\ Part(text["a"], k + 1) \in Nat /\ Part(text["b"], k + 1) \in Nat
          /\ order' = Sign(Part(text["a"], k + 1), Part(text["b"], k + 1))
      BY <2>5, <3>1, PartIsNat DEF ReturnOrder, Sides
    <3>6. /\ order' # 0
          /\ (order' = 1) = (\E l \in Parts : First(l) /\ Part(text["a"], l) > Part(text["b"], l))
      <4>1. order' # 0 /\ (order' = 1 <=> Part(text["a"], k + 1) > Part(text["b"], k + 1))
        BY <3>2, <3>5 DEF Sign
      <4>2. (\E l \in Parts : First(l) /\ Part(text["a"], l) > Part(text["b"], l))
              <=> Part(text["a"], k + 1) > Part(text["b"], k + 1)
        BY <3>3, <3>4
      <4>. QED BY <4>1, <4>2
    <3>7. Differing # {}
      BY <3>4 DEF First
    <3>8. (Differing = Differing') /\ (Parts = Parts') /\ \A l : First(l) = First(l)'
      BY <2>3 DEF Differing, Parts, First
    <3>. QED BY <2>3, <3>6, <3>7, <3>8 DEF CompareRight
  <2>. QED BY <1>3, <2>4, <2>5
<1>4. CASE (ReturnEqual \/ ReturnOrder) /\ ~Numeric
  BY <1>4 DEF ReturnEqual, ReturnOrder, CompareRight, Numeric
<1>. QED BY <1>1, <1>2, <1>3, <1>4 DEF CompareNext

-----------------------------------------------------------------------------
(* The theorems.                                                           *)

\* The pointers of compare_versions never leave their strings, and what it returns
\* is 1, 0 or -1 (tmpl_updateagent.cpp:173-187).
THEOREM ComparisonTypeCorrect == CompareSpec => []VersionsTypeOK
<1>1. CompareInit => VersionsTypeOK
  BY CompareInitially
<1>2. VersionsTypeOK /\ [CompareNext]_vars => VersionsTypeOK'
  BY CompareTypePreserved
<1>. QED BY <1>1, <1>2, PTL DEF CompareSpec

\* On strings of numbers and dots of any length compare_versions returns the order
\* of the first parts that differ, missing parts taken for 0
\* (tmpl_updateagent.cpp:173-187).
THEOREM ComparisonIsRight == CompareSpec => []CompareRight
<1>1. CompareInit => TurnsInv /\ CompareRight
  BY CompareInitially
<1>2. VersionsTypeOK /\ TurnsInv /\ CompareRight /\ [CompareNext]_vars
        => TurnsInv' /\ CompareRight'
  BY TurnsPreserved, ReturnsRight
<1>. QED BY <1>1, <1>2, ComparisonTypeCorrect, PTL DEF CompareSpec

-----------------------------------------------------------------------------
(* The turns get on.                                                       *)

LEMMA RestLength ==
    ASSUME NEW s \in Seq(Tokens), NEW n \in 0..Len(s)
    PROVE  Len(From(s, n)) = Len(s) - n
<1>1. Len(s) \in Nat /\ \A i \in 1..Len(s) : s[i] \in Tokens
  BY LenProperties, ElementOfSeq
<1>. QED BY <1>1, SubSeqProperties DEF From

LEMMA NextIsShorter ==
    ASSUME NEW s, Clean(s), NEW n \in 0..Len(s), From(s, n) # <<>>
    PROVE  Len(NextPart(From(s, n))) < Len(From(s, n))
<1>1. s \in Seq(Tokens) /\ Len(s) \in Nat
  BY LenProperties DEF Clean
<1>2. n < Len(s) /\ n + 1 \in 0..Len(s) /\ n + 1 \in 1..Len(s)
  BY <1>1, RestTokens
<1>3. /\ Head(From(s, n)) = s[n + 1] /\ Tail(From(s, n)) = From(s, n + 1)
      /\ Len(From(s, n + 1)) = Len(s) - (n + 1) /\ Len(From(s, n)) = Len(s) - n
  BY <1>1, <1>2, RestTokens, RestLength
<1>4. CASE s[n + 1] = Dot
  <2>1. AfterNumber(From(s, n)) = From(s, n)
    BY <1>3, <1>4 DEF AfterNumber, Starts, Dot
  <2>2. NextPart(From(s, n)) = From(s, n + 1)
    BY <1>3, <1>4, <2>1 DEF NextPart, Starts
  <2>. QED BY <1>1, <1>3, <2>2
<1>5. CASE s[n + 1] \in Nat
  <2>1. AfterNumber(From(s, n)) = From(s, n + 1)
    BY <1>3, <1>5 DEF AfterNumber, Starts
  <2>2. CASE ~Starts(From(s, n + 1), {Dot})
    BY <1>1, <1>3, <2>1, <2>2 DEF NextPart
  <2>3. CASE Starts(From(s, n + 1), {Dot})
    <3>1. n + 1 # Len(s) /\ n + 2 \in 0..Len(s) /\ (n + 1) + 1 = n + 2
      BY <1>1, <1>2, <2>3, RestTokens DEF Starts
    <3>2. Tail(From(s, n + 1)) = From(s, n + 2)
      BY <1>1, <1>2, <3>1, RestTokens
    <3>3. NextPart(From(s, n)) = From(s, n + 2)
      BY <2>1, <2>3, <3>2 DEF NextPart
    <3>. QED BY <1>1, <1>3, <3>1, <3>3, RestLength
  <2>. QED BY <2>2, <2>3
<1>. QED BY <1>2, <1>4, <1>5 DEF Clean

LEMMA TurnAdvances ==
    ASSUME VersionsTypeOK, Numeric, NextParts
    PROVE  Advances
<1>1. SUFFICES ASSUME NEW x \in Sides, rest[x] # <<>>
               PROVE  Len(rest'[x]) < Len(rest[x])
  BY DEF Advances
<1>2. Clean(text[x]) /\ rest'[x] = NextPart(rest[x])
  BY NumericIsClean DEF VersionsTypeOK, NextParts
<1>3. PICK n \in 0..Len(text[x]) : rest[x] = From(text[x], n)
  BY DEF VersionsTypeOK, From
<1>. QED BY <1>1, <1>2, <1>3, NextIsShorter

\* Every turn of compare_versions on strings of numbers and dots takes something from
\* each that has anything left, whatever their lengths: what is left of the two is a
\* variant of the loop (tmpl_updateagent.cpp:175-185).
THEOREM ComparisonAdvances == CompareSpec => TurnsAdvance
<1>1. VersionsTypeOK /\ [CompareNext]_vars => [Numeric /\ order' = Open => Advances]_vars
  <2>1. SUFFICES ASSUME VersionsTypeOK, Numeric, CompareNext, order' = Open PROVE Advances
    BY DEF vars
  <2>2. NextParts
    BY <2>1 DEF CompareNext, ReturnEqual, ReturnOrder, Sign, Open
  <2>. QED BY <2>1, <2>2, TurnAdvances
<1>. QED BY <1>1, ComparisonTypeCorrect, PTL DEF CompareSpec, TurnsAdvance

-----------------------------------------------------------------------------
(* The order of versions.                                                  *)

PartNumbers == Nat \ {0}

SameUpTo(s, t, k) == \A l \in 1..k - 1 : Part(s, l) = Part(t, l)

Older(s, t) == \E k \in PartNumbers : Part(s, k) < Part(t, k) /\ SameUpTo(s, t, k)

SameVersion(s, t) == \A k \in PartNumbers : Part(s, k) = Part(t, k)

\* The result of the comparison is the order of the versions.
OrderRight ==
    Numeric /\ order # Open =>
      /\ order = 1 <=> Older(text["b"], text["a"])
      /\ order = -1 <=> Older(text["a"], text["b"])
      /\ order = 0 <=> SameVersion(text["a"], text["b"])

LEMMA LeastNumber ==
    ASSUME NEW S \in SUBSET Nat, S # {}
    PROVE  \E k \in S : \A l \in S : k <= l
<1>1. PICK k \in S : \A l \in S : <<l, k>> \notin OpToRel(<, Nat)
  BY NatLessThanWellFounded, WFMin
<1>2. \A l \in S : ~(l < k)
  BY <1>1 DEF OpToRel
<1>. QED BY <1>2

\* Two versions differ in a first part, or are the same.
LEMMA FirstDifference ==
    ASSUME NEW s, NEW t
    PROVE  \/ SameVersion(s, t)
           \/ \E k \in PartNumbers : Part(s, k) # Part(t, k) /\ SameUpTo(s, t, k)
<1>. DEFINE D == {k \in PartNumbers : Part(s, k) # Part(t, k)}
<1>1. CASE D = {}
  BY <1>1 DEF SameVersion
<1>2. CASE D # {}
  <2>1. PICK k \in D : \A l \in D : k <= l
    BY <1>2, LeastNumber DEF PartNumbers
  <2>2. \A l \in 1..k - 1 : l \in PartNumbers /\ ~(k <= l)
    BY DEF PartNumbers
  <2>. QED BY <2>1, <2>2 DEF SameUpTo
<1>. QED BY <1>1, <1>2

\* The order that ComparisonIsOrder states is one on strings of any length: no version
\* is older than itself, what is older than an older one is older, and two versions
\* neither of which is older have the same parts (tmpl_updateagent.cpp:173-187).
LEMMA VersionsAreOrdered ==
    ASSUME NEW r, NEW s, NEW t
    PROVE  /\ ~Older(s, s)
           /\ Older(r, s) /\ Older(s, t) => Older(r, t)
           /\ ~Older(s, t) /\ ~Older(t, s) <=> SameVersion(s, t)
<1>. USE DEF PartNumbers, SameUpTo
<1>0. \A v, k : Part(v, k) \in Nat
  BY PartIsNat
<1>1. ~Older(s, s)
  BY <1>0 DEF Older
<1>2. ASSUME Older(r, s), Older(s, t) PROVE Older(r, t)
  <2>1. PICK j \in Nat \ {0} : Part(r, j) < Part(s, j) /\ \A l \in 1..j - 1 : Part(r, l) = Part(s, l)
    BY <1>2 DEF Older
  <2>2. PICK k \in Nat \ {0} : Part(s, k) < Part(t, k) /\ \A l \in 1..k - 1 : Part(s, l) = Part(t, l)
    BY <1>2 DEF Older
  <2>3. CASE j < k
    <3>1. j \in 1..k - 1 /\ \A l \in 1..j - 1 : l \in 1..k - 1
      BY <2>3
    <3>. QED BY <2>1, <2>2, <3>1 DEF Older
  <2>4. CASE k < j
    <3>1. k \in 1..j - 1 /\ \A l \in 1..k - 1 : l \in 1..j - 1
      BY <2>4
    <3>. QED BY <2>1, <2>2, <3>1 DEF Older
  <2>5. CASE j = k
    <3>1. Part(r, k) < Part(t, k)
      BY <1>0, <2>1, <2>2, <2>5
    <3>. QED BY <2>1, <2>2, <2>5, <3>1 DEF Older
  <2>. QED BY <2>3, <2>4, <2>5
<1>3. ~Older(s, t) /\ ~Older(t, s) => SameVersion(s, t)
  <2>1. SUFFICES ASSUME NEW k \in Nat \ {0}, Part(s, k) # Part(t, k), SameUpTo(s, t, k)
                 PROVE  Older(s, t) \/ Older(t, s)
    BY FirstDifference
  <2>2. Part(s, k) < Part(t, k) \/ Part(t, k) < Part(s, k)
    BY <1>0, <2>1
  <2>. QED BY <2>1, <2>2 DEF Older
<1>4. SameVersion(s, t) => ~Older(s, t) /\ ~Older(t, s)
  BY <1>0 DEF SameVersion, Older
<1>. QED BY <1>1, <1>2, <1>3, <1>4

LEMMA NoPartBeyond ==
    ASSUME NEW s \in Seq(Tokens), NEW k \in Nat, k > Len(s)
    PROVE  Part(s, k) = 0
<1>1. Len(s) \in Nat /\ DOMAIN s = 1..Len(s)
  BY LenProperties
<1>2. \A i \in 1..Len(s) : i \in Nat \ {0} /\ i < k
  BY <1>1
<1>3. \A i \in 1..Len(s) : DotsBefore(s, i) \in 0..i - 1
  BY <1>2, DotsFinite
<1>4. {i \in DOMAIN s : s[i] \in Nat /\ DotsBefore(s, i) = k - 1} = {}
  <2>1. \A i \in 1..Len(s) : DotsBefore(s, i) # k - 1
    BY <1>2, <1>3
  <2>. QED BY <1>1, <2>1
<1>. QED BY <1>4 DEF Part

LEMMA RightIsOrdered ==
    ASSUME VersionsTypeOK, CompareRight
    PROVE  OrderRight
<1>1. SUFFICES ASSUME Numeric, order # Open
               PROVE  \/ order = 1 /\ Older(text["b"], text["a"])
                      \/ order = -1 /\ Older(text["a"], text["b"])
                      \/ order = 0 /\ SameVersion(text["a"], text["b"])
  BY VersionsAreOrdered DEF OrderRight
<1>2. /\ text["a"] \in Seq(Tokens) /\ text["b"] \in Seq(Tokens)
      /\ Len(text["a"]) \in Nat /\ Len(text["b"]) \in Nat
  <2>1. text["a"] \in Strings /\ text["b"] \in Strings
    BY DEF VersionsTypeOK, Sides
  <2>. QED BY <2>1, StringsAreSeqs, LenProperties
<1>3. PICK p \in Nat, q \in Nat : p = Len(text["a"]) /\ q = Len(text["b"])
  BY <1>2
<1>4. Parts = 1..p + q + 1
  BY <1>3 DEF Parts
<1>5. \A k \in PartNumbers : k \notin Parts => Part(text["a"], k) = Part(text["b"], k)
  <2>1. SUFFICES ASSUME NEW k \in PartNumbers, k \notin Parts
                 PROVE  Part(text["a"], k) = Part(text["b"], k)
    OBVIOUS
  <2>2. k > p /\ k > q
    BY <1>4, <2>1 DEF PartNumbers
  <2>. QED BY <1>2, <1>3, <2>2, NoPartBeyond DEF PartNumbers
<1>6. CASE SameVersion(text["a"], text["b"])
  <2>1. Parts \subseteq PartNumbers
    BY <1>4 DEF PartNumbers
  <2>2. Differing = {}
    BY <1>6, <2>1 DEF Differing, SameVersion
  <2>. QED BY <1>1, <1>6, <2>2 DEF CompareRight
<1>7. CASE \E k \in PartNumbers : Part(text["a"], k) # Part(text["b"], k) /\ SameUpTo(text["a"], text["b"], k)
  <2>1. PICK k \in PartNumbers : /\ Part(text["a"], k) # Part(text["b"], k)
                                 /\ SameUpTo(text["a"], text["b"], k)
    BY <1>7
  <2>2. k \in Parts /\ k \in Differing
    BY <1>5, <2>1 DEF Differing
  <2>3. \A l \in Differing : l \in Nat /\ k <= l
    BY <1>4, <2>1 DEF Differing, SameUpTo, PartNumbers
  <2>4. First(k) /\ \A l : First(l) => l = k
    <3>1. First(k)
      BY <2>2, <2>3 DEF First
    <3>2. ASSUME NEW l, First(l) PROVE l = k
      <4>1. l \in Differing /\ l <= k
        BY <2>2, <3>2 DEF First
      <4>2. l \in Nat /\ k \in Nat /\ k <= l
        BY <2>3, <4>1 DEF PartNumbers
      <4>. QED BY <4>1, <4>2
    <3>. QED BY <3>1, <3>2
  <2>5. /\ order \in {1, -1}
        /\ (order = 1) <=> Part(text["a"], k) > Part(text["b"], k)
    BY <1>1, <2>2, <2>4 DEF CompareRight, VersionsTypeOK
  <2>6. Part(text["a"], k) \in Nat /\ Part(text["b"], k) \in Nat
    BY PartIsNat
  <2>7. \/ order = 1 /\ Part(text["b"], k) < Part(text["a"], k)
        \/ order = -1 /\ Part(text["a"], k) < Part(text["b"], k)
    BY <2>1, <2>5, <2>6
  <2>8. SameUpTo(text["b"], text["a"], k)
    BY <2>1 DEF SameUpTo
  <2>. QED BY <2>1, <2>7, <2>8 DEF Older
<1>. QED BY <1>6, <1>7, FirstDifference

\* What compare_versions returns on strings of numbers and dots is their order: 1 for a
\* newer first string, -1 for an older one, 0 for the same version
\* (tmpl_updateagent.cpp:173-187), by which the boot synchronisation chooses (248).
THEOREM ComparisonIsOrder == CompareSpec => []OrderRight
<1>1. VersionsTypeOK /\ CompareRight => OrderRight
  BY RightIsOrdered
<1>. QED BY <1>1, ComparisonTypeCorrect, ComparisonIsRight, PTL
=============================================================================
