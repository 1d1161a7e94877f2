--------------------------- MODULE LogStoreProofs ---------------------------
(***************************************************************************)
(* What a logbook keeps, for any number of records, calls, faults, crashes *)
(* and edits.  First what the contents of a file are, then what the steps  *)
(* of one kind have in common, then the steps themselves, and at the end   *)
(* the refinement of DurableLog.                                           *)
(***************************************************************************)
EXTENDS LogStore, SequenceTheorems, TLAPS

-----------------------------------------------------------------------------
(* Sequences                                                               *)

\* The first elements of a sequence, which may be longer than is known.
LEMMA Start ==
  ASSUME NEW S, NEW s, NEW m \in Nat, \A i \in 1 .. m : s[i] \in S
  PROVE  /\ SubSeq(s, 1, m) \in Seq(S) /\ Len(SubSeq(s, 1, m)) = m
         /\ \A i \in 1 .. m : SubSeq(s, 1, m)[i] = s[i]
  <1>1. /\ SubSeq(s, 1, m) \in Seq(S)
        /\ Len(SubSeq(s, 1, m)) = IF 1 <= m THEN m - 1 + 1 ELSE 0
        /\ \A i \in 1 .. m - 1 + 1 : SubSeq(s, 1, m)[i] = s[1 + i - 1]
    BY SubSeqProperties
  <1> QED BY <1>1

\* Two sequences that agree up to the length of the first.
LEMMA SameStart ==
  ASSUME NEW S, NEW s \in Seq(S), NEW t, \A i \in 1 .. Len(s) : t[i] = s[i]
  PROVE  SubSeq(t, 1, Len(s)) = s
  <1>1. Len(s) \in Nat /\ \A i \in 1 .. Len(s) : t[i] \in S
    BY LenProperties, ElementOfSeq
  <1>2. /\ SubSeq(t, 1, Len(s)) \in Seq(S) /\ Len(SubSeq(t, 1, Len(s))) = Len(s)
        /\ \A i \in 1 .. Len(s) : SubSeq(t, 1, Len(s))[i] = t[i]
    BY <1>1, Start
  <1> QED BY <1>2, SeqEqual

\* A sequence cut in two.
LEMMA Parts ==
  ASSUME NEW S, NEW s \in Seq(S), NEW m \in 0 .. Len(s)
  PROVE  /\ SubSeq(s, 1, m) \in Seq(S) /\ Len(SubSeq(s, 1, m)) = m
         /\ \A i \in 1 .. m : SubSeq(s, 1, m)[i] = s[i]
         /\ SubSeq(s, m + 1, Len(s)) \in Seq(S) /\ Len(SubSeq(s, m + 1, Len(s))) = Len(s) - m
         /\ SubSeq(s, 1, m) \o SubSeq(s, m + 1, Len(s)) = s
         /\ \A k \in 0 .. Len(s) - m :
              SubSeq(s, 1, m) \o SubSeq(SubSeq(s, m + 1, Len(s)), 1, k) = SubSeq(s, 1, m + k)
  <1> DEFINE b == SubSeq(s, 1, m)
             rest == SubSeq(s, m + 1, Len(s))
  <1>1. Len(s) \in Nat /\ m \in Nat /\ m <= Len(s) /\ \A i \in 1 .. Len(s) : s[i] \in S
    BY LenProperties, ElementOfSeq
  <1>2. \A i \in 1 .. m : s[i] \in S
    BY <1>1
  <1>3. b \in Seq(S) /\ Len(b) = m /\ \A i \in 1 .. m : b[i] = s[i]
    BY <1>1, <1>2, Start
  <1>4. rest \in Seq(S) /\ Len(rest) = Len(s) - m
    <2>1. \A i \in m + 1 .. Len(s) : s[i] \in S
      BY <1>1
    <2>2. /\ rest \in Seq(S)
          /\ Len(rest) = IF m + 1 <= Len(s) THEN Len(s) - (m + 1) + 1 ELSE 0
      BY <1>1, <2>1, SubSeqProperties
    <2> QED BY <1>1, <2>2
  <1>5. ASSUME NEW k \in 0 .. Len(s) - m
        PROVE  b \o SubSeq(rest, 1, k) = SubSeq(s, 1, m + k)
    <2>1. CASE k = 0
      <3>1. SubSeq(rest, 1, k) = <<>>
        BY <2>1, SubSeqEmpty
      <3>2. b \o <<>> = b
        BY <1>3, ConcatEmptySeq
      <3> QED BY <1>1, <2>1, <3>1, <3>2
    <2>2. CASE k # 0
      <3>1. /\ m + 1 \in 1 .. Len(s) /\ Len(s) \in 1 .. Len(s)
            /\ 1 \in 1 .. Len(s) - (m + 1) + 1 /\ k \in 1 .. Len(s) - (m + 1) + 1
            /\ m + 1 + 1 - 1 = m + 1 /\ m + 1 + k - 1 = m + k
        BY <1>1, <2>2
      <3>2. SubSeq(rest, 1, k) = SubSeq(s, m + 1 + 1 - 1, m + 1 + k - 1)
        BY <3>1, SubSeqOfSubSeq
      <3>3. SubSeq(rest, 1, k) = SubSeq(s, m + 1, m + k)
        BY <3>1, <3>2
      <3>4. 1 \in 1 .. Len(s) + 1 /\ m \in 1 - 1 .. Len(s) /\ m + k \in m .. Len(s)
        BY <1>1, <2>2
      <3>5. b \o SubSeq(s, m + 1, m + k) = SubSeq(s, 1, m + k)
        BY <3>4, ConcatAdjacentSubSeq
      <3> QED BY <3>3, <3>5
    <2> QED BY <2>1, <2>2
  <1>6. b \o rest = s
    <2>1. 1 \in 1 .. Len(s) + 1 /\ m \in 1 - 1 .. Len(s) /\ Len(s) \in m .. Len(s)
      BY <1>1
    <2>2. b \o rest = SubSeq(s, 1, Len(s))
      BY <2>1, ConcatAdjacentSubSeq
    <2> QED BY <2>2, SubSeqFull
  <1> QED BY <1>3, <1>4, <1>5, <1>6

\* Who joins a queue without doubles comes last, and who leaves it was first.
LEMMA Joins ==
  ASSUME NEW S, NEW q \in Seq(S), IsInjective(q), NEW who \in S, who \notin ToSet(q)
  PROVE  /\ Append(q, who) \in Seq(S) /\ IsInjective(Append(q, who))
         /\ ToSet(Append(q, who)) = ToSet(q) \cup {who}
         /\ Append(q, who) # <<>>
         /\ q # <<>> => Head(Append(q, who)) = Head(q)
  <1> DEFINE a == Append(q, who)
  <1>1. /\ a \in Seq(S) /\ a # <<>> /\ Len(a) = Len(q) + 1 /\ a[Len(q) + 1] = who
        /\ \A i \in 1 .. Len(q) : a[i] = q[i]
    BY AppendProperties
  <1>2. q # <<>> => Head(a) = Head(q)
    BY HeadTailAppend
  <1> HIDE DEF a
  <1>3. Len(q) \in Nat /\ DOMAIN q = 1 .. Len(q) /\ DOMAIN a = 1 .. Len(q) + 1
    BY <1>1, LenProperties
  <1>4. \A i \in DOMAIN a : (i \in DOMAIN q /\ a[i] = q[i]) \/ (i = Len(q) + 1 /\ a[i] = who)
    BY <1>1, <1>3
  <1>5. \A i \in DOMAIN q : i \in DOMAIN a /\ q[i] # who
    BY <1>3 DEF ToSet
  <1>6. IsInjective(a)
    BY <1>4, <1>5 DEF IsInjective
  <1>7. Len(q) + 1 \in DOMAIN a
    BY <1>3
  <1>8. ToSet(a) = ToSet(q) \cup {who}
    BY <1>1, <1>4, <1>5, <1>7 DEF ToSet
  <1> QED BY <1>1, <1>2, <1>6, <1>8 DEF a

\* The first in the queue of the path leaves it.
LEMMA Leaves ==
  ASSUME NEW S, NEW q \in Seq(S), IsInjective(q), q # <<>>
  PROVE  /\ Tail(q) \in Seq(S) /\ IsInjective(Tail(q))
         /\ ToSet(Tail(q)) = ToSet(q) \ {Head(q)} /\ Head(q) \in ToSet(q)
  <1> DEFINE t == Tail(q)
  <1>1. t \in Seq(S) /\ Len(t) = Len(q) - 1 /\ \A i \in 1 .. Len(t) : t[i] = q[i + 1]
    BY HeadTailProperties
  <1>2. Head(q) = q[1]
    OBVIOUS
  <1> HIDE DEF t
  <1>3. Len(q) \in Nat /\ Len(q) >= 1 /\ DOMAIN q = 1 .. Len(q) /\ DOMAIN t = 1 .. Len(q) - 1
    BY <1>1, EmptySeq, LenProperties
  <1>4. \A i \in DOMAIN t : i + 1 \in DOMAIN q /\ t[i] = q[i + 1] /\ i + 1 # 1 /\ i \in Nat
    BY <1>1, <1>3
  <1>5. \A i \in DOMAIN q : i = 1 \/ (i - 1 \in DOMAIN t /\ i - 1 + 1 = i)
    BY <1>3
  <1>6. 1 \in DOMAIN q
    BY <1>3
  <1>7. IsInjective(t)
    <2>1. SUFFICES ASSUME NEW i \in DOMAIN t, NEW j \in DOMAIN t, t[i] = t[j] PROVE i = j
      BY DEF IsInjective
    <2>2. i + 1 = j + 1 /\ i \in Nat /\ j \in Nat
      BY <1>4, <2>1 DEF IsInjective
    <2> QED BY <2>2
  <1>8. ToSet(t) \subseteq ToSet(q) \ {Head(q)}
    BY <1>2, <1>4, <1>6 DEF ToSet, IsInjective
  <1>9. ToSet(q) \ {Head(q)} \subseteq ToSet(t)
    BY <1>2, <1>4, <1>5 DEF ToSet
  <1>10. Head(q) \in ToSet(q)
    BY <1>2, <1>6 DEF ToSet
  <1> QED BY <1>1, <1>7, <1>8, <1>9, <1>10 DEF t

-----------------------------------------------------------------------------
(* Contents                                                                *)

\* The bounds are natural numbers.
LEMMA Bounds ==
  /\ MaxRecords \in Nat /\ MaxCalls \in Nat /\ MaxBackups \in Nat
  /\ MaxFaults \in Nat /\ MaxCrashes \in Nat /\ MaxEdits \in Nat
  BY BoundsAssumption

Upto(n) == {Torn} \cup 1 .. n

\* A content is a sequence of numbers with nothing torn before its end.
LEMMA ContentTyped ==
  ASSUME left.records \in Nat, NEW c \in Contents
  PROVE  /\ c \in Seq(Nat) /\ Len(c) \in Nat /\ DOMAIN c = 1 .. Len(c)
         /\ c \in Seq(Upto(left.records - 1))
         /\ \A i \in 1 .. Len(c) : c[i] \in Upto(left.records - 1)
         /\ \A i \in 1 .. Len(c) - 1 : c[i] # Torn
         /\ c = <<>> <=> Len(c) = 0
  <1>1. c \in Seq(Upto(left.records - 1)) /\ \A i \in 1 .. Len(c) - 1 : c[i] # Torn
    BY DEF Contents, Upto
  <1>2. Upto(left.records - 1) \subseteq Nat
    BY DEF Upto, Torn
  <1>3. c \in Seq(Nat)
    BY <1>1, <1>2, SeqMonotonic
  <1>4. Len(c) \in Nat /\ DOMAIN c = 1 .. Len(c)
    BY <1>1, LenProperties
  <1>5. \A i \in 1 .. Len(c) : c[i] \in Upto(left.records - 1)
    BY <1>1, ElementOfSeq
  <1>6. c = <<>> <=> Len(c) = 0
    BY <1>1, EmptySeq
  <1> QED BY <1>1, <1>3, <1>4, <1>5, <1>6

\* A sequence with nothing torn before its end is a content.
LEMMA ContentMade ==
  ASSUME left.records \in Nat, NEW c \in Seq(Upto(left.records - 1)),
         \A i \in 1 .. Len(c) - 1 : c[i] # Torn
  PROVE  c \in Contents
  BY DEF Contents, Upto

\* An empty file holds a content, and a whole one.
LEMMA EmptyContent ==
  ASSUME left.records \in Nat
  PROVE  <<>> \in Contents /\ ~IsTorn(<<>>) /\ Complete(<<>>) = <<>>
  <1>1. <<>> \in Seq(Upto(left.records - 1)) /\ Len(<<>>) = 0
    BY EmptySeq
  <1>2. <<>> \in Contents
    <2>1. \A i \in 1 .. Len(<<>>) - 1 : (<<>>)[i] # Torn
      BY <1>1
    <2> QED BY <1>1, <2>1, ContentMade
  <1>3. ~IsTorn(<<>>)
    BY DEF IsTorn
  <1> QED BY <1>2, <1>3 DEF Complete

\* No content is the absence of one.
LEMMA ContentExists ==
  ASSUME left.records \in Nat, NEW c \in Contents
  PROVE  c # NoContent
  BY ContentTyped, BoundsAssumption

\* A content that is not torn is a sequence of records, and so is what is complete of one.
LEMMA WholeContent ==
  ASSUME left.records \in 1 .. MaxRecords + 1, NEW c \in Contents
  PROVE  /\ Complete(c) \in Contents /\ ~IsTorn(Complete(c))
         /\ Complete(c) \in Seq(1 .. left.records - 1) /\ Complete(c) \in Seq(Records)
         /\ ~IsTorn(c) => Complete(c) = c
         /\ IsTorn(c) => Len(c) >= 1 /\ Complete(c) = SubSeq(c, 1, Len(c) - 1)
  <1> DEFINE n == left.records - 1
  <1>1. /\ n \in 0 .. MaxRecords /\ left.records \in Nat /\ MaxRecords \in Nat
        /\ c \in Seq(Upto(n)) /\ Len(c) \in Nat
        /\ \A i \in 1 .. Len(c) : c[i] \in Upto(n)
        /\ \A i \in 1 .. Len(c) - 1 : c[i] # Torn
        /\ c = <<>> <=> Len(c) = 0
    BY ContentTyped, Bounds
  <1> HIDE DEF n
  <1>2. ASSUME NEW d \in Seq(1 .. n) PROVE d \in Contents /\ ~IsTorn(d) /\ d \in Seq(Records)
    <2>1. d \in Seq(Upto(n)) /\ d \in Seq(Records)
      <3>1. 1 .. n \subseteq Upto(n) /\ 1 .. n \subseteq Records
        BY <1>1 DEF Upto, Records
      <3> QED BY <3>1, SeqMonotonic
    <2>2. \A i \in 1 .. Len(d) : d[i] \in 1 .. n
      BY ElementOfSeq
    <2>3. Len(d) \in Nat /\ (d # <<>> => Len(d) \in Nat \ {0})
      BY LenProperties, EmptySeq
    <2>4. \A i \in 1 .. Len(d) : d[i] # Torn
      BY <1>1, <2>2 DEF Torn
    <2>5. d \in Contents
      BY <1>1, <2>1, <2>3, <2>4, ContentMade DEF n
    <2>6. ~IsTorn(d)
      BY <2>3, <2>4 DEF IsTorn, Last
    <2> QED BY <2>1, <2>5, <2>6
  <1>3. CASE IsTorn(c)
    <2>1. Len(c) >= 1 /\ Complete(c) = SubSeq(c, 1, Len(c) - 1)
      BY <1>1, <1>3 DEF IsTorn, Complete, Front
    <2>2. \A i \in 1 .. Len(c) - 1 : c[i] \in 1 .. n
      BY <1>1 DEF Upto, Torn
    <2>3. SubSeq(c, 1, Len(c) - 1) \in Seq(1 .. n)
      BY <1>1, <2>2, SubSeqProperties
    <2> QED BY <1>2, <1>3, <2>1, <2>3 DEF n
  <1>4. CASE ~IsTorn(c)
    <2>1. \A i \in 1 .. Len(c) : c[i] \in 1 .. n
      BY <1>1, <1>4 DEF IsTorn, Last, Upto, Torn
    <2>2. SubSeq(c, 1, Len(c)) \in Seq(1 .. n) /\ SubSeq(c, 1, Len(c)) = c
      BY <1>1, <2>1, SubSeqProperties, SubSeqFull
    <2>3. Complete(c) = c /\ c \in Seq(1 .. n)
      BY <1>4, <2>2 DEF Complete
    <2> QED BY <1>2, <1>4, <2>3 DEF n
  <1> QED BY <1>3, <1>4

\* A sequence of records handed out is a content.
LEMMA RecordsAreContent ==
  ASSUME left.records \in 1 .. MaxRecords + 1, NEW c \in Seq(1 .. left.records - 1)
  PROVE  c \in Contents /\ ~IsTorn(c)
  <1> DEFINE n == left.records - 1
  <1>1. n \in Nat /\ left.records \in Nat /\ c \in Seq(Upto(n))
    <2>1. n \in Nat /\ left.records \in Nat
      BY Bounds
    <2>2. 1 .. n \subseteq Upto(n)
      BY DEF Upto
    <2>3. c \in Seq(Upto(n))
      BY <2>2, SeqMonotonic
    <2> QED BY <2>1, <2>3
  <1>2. \A i \in 1 .. Len(c) : c[i] \in 1 .. n
    BY ElementOfSeq
  <1>3. Len(c) \in Nat /\ (c # <<>> => Len(c) \in Nat \ {0})
    BY LenProperties, EmptySeq
  <1>4. \A i \in 1 .. Len(c) : c[i] # Torn
    BY <1>1, <1>2 DEF Torn
  <1>5. c \in Contents
    BY <1>1, <1>3, <1>4, ContentMade DEF n
  <1> QED BY <1>3, <1>4, <1>5 DEF IsTorn, Last

\* Contents grow with the records.
LEMMA ContentsGrow ==
  ASSUME left.records \in Nat, left'.records \in Nat, left.records <= left'.records
  PROVE  /\ Contents \subseteq Contents' /\ Optional \subseteq Optional'
         /\ SUBSET Contents \subseteq SUBSET (Contents') /\ Calls \subseteq Calls'
  <1>1. Upto(left.records - 1) \subseteq Upto(left'.records - 1)
    BY DEF Upto
  <1>2. ASSUME NEW c \in Contents PROVE c \in Contents'
    <2>1. c \in Seq(Upto(left'.records - 1)) /\ \A i \in 1 .. Len(c) - 1 : c[i] # Torn
      BY <1>1, ContentTyped, SeqMonotonic
    <2> QED BY <2>1 DEF Contents, Upto
  <1>3. 1 .. left.records - 1 \subseteq 1 .. left'.records - 1
    OBVIOUS
  <1>4. Seq(1 .. left.records - 1) \subseteq Seq(1 .. left'.records - 1)
    BY <1>3, SeqMonotonic
  <1>5. Calls \subseteq Calls'
    BY <1>4 DEF Calls
  <1> QED BY <1>2, <1>5 DEF Optional

\* The types stay the same while no record is handed out.
LEMMA TypesStay ==
  ASSUME left'.records = left.records
  PROVE  /\ Contents' = Contents /\ Optional' = Optional /\ Calls' = Calls
         /\ DiskType' = DiskType /\ OpType' = OpType /\ BackupType' = BackupType
         /\ ToldType' = ToldType
  <1>1. Contents' = Contents /\ Optional' = Optional /\ Calls' = Calls
    BY DEF Contents, Optional, Calls
  <1> QED BY <1>1 DEF DiskType, OpType, BackupType, ToldType


\* What is put behind a whole content is found behind it.
LEMMA Behind ==
  ASSUME left.records \in 1 .. MaxRecords + 1,
         NEW c \in Contents, ~IsTorn(c), NEW recs \in Seq(1 .. left.records - 1)
  PROVE  /\ c \o recs \in Contents /\ ~IsTorn(c \o recs) /\ Len(c \o recs) = Len(c) + Len(recs)
         /\ SubSeq(c \o recs, 1, Len(c)) = c
         /\ Append(c \o recs, Torn) \in Contents /\ IsTorn(Append(c \o recs, Torn))
         /\ Complete(Append(c \o recs, Torn)) = c \o recs
         /\ Len(Append(c \o recs, Torn)) = Len(c) + Len(recs) + 1
         /\ SubSeq(Append(c \o recs, Torn), 1, Len(c)) = c
  <1> DEFINE n == left.records - 1
             d == c \o recs
             t == Append(d, Torn)
  <1>1. n \in Nat /\ left.records \in Nat
    BY Bounds
  <1>2. c \in Seq(1 .. n)
    BY WholeContent
  <1>3. /\ d \in Seq(1 .. n) /\ Len(d) = Len(c) + Len(recs)
        /\ Len(c) \in Nat /\ Len(recs) \in Nat
        /\ \A i \in 1 .. Len(c) : d[i] = c[i]
    <2>1. Len(c) \in Nat /\ Len(recs) \in Nat
      BY <1>2, LenProperties
    <2> QED BY <1>2, <2>1, ConcatProperties
  <1>4. d \in Contents /\ ~IsTorn(d)
    BY <1>3, RecordsAreContent
  <1> HIDE DEF d
  <1>5. /\ t \in Seq(Upto(n)) /\ t # <<>> /\ Len(t) = Len(d) + 1
        /\ \A i \in 1 .. Len(d) : t[i] = d[i]
        /\ t[Len(d) + 1] = Torn
    <2>1. d \in Seq(Upto(n)) /\ Torn \in Upto(n)
      BY <1>1, <1>4, ContentTyped DEF Upto
    <2> QED BY <2>1, AppendProperties
  <1> HIDE DEF t
  <1>6. ASSUME NEW i \in 1 .. Len(d) PROVE t[i] = d[i] /\ d[i] \in 1 .. n /\ t[i] # Torn
    <2>1. d[i] \in 1 .. n
      BY <1>3, ElementOfSeq
    <2>2. t[i] = d[i]
      BY <1>5
    <2> HIDE DEF n
    <2> QED BY <2>1, <2>2 DEF Torn
  <1>7. t \in Contents
    <2>1. \A i \in 1 .. Len(t) - 1 : t[i] # Torn
      BY <1>3, <1>5, <1>6
    <2> QED BY <1>1, <1>5, <2>1, ContentMade
  <1>8. IsTorn(t) /\ Complete(t) = SubSeq(t, 1, Len(d))
    BY <1>3, <1>5 DEF IsTorn, Last, Complete, Front
  <1>9. SubSeq(t, 1, Len(d)) = d
    <2>1. /\ SubSeq(t, 1, Len(d)) \in Seq(1 .. n) /\ Len(SubSeq(t, 1, Len(d))) = Len(d)
          /\ \A i \in 1 .. Len(d) : SubSeq(t, 1, Len(d))[i] = t[i]
      BY <1>3, <1>6, SubSeqProperties
    <2> QED BY <1>3, <1>6, <2>1, SeqEqual
  <1>10. ASSUME NEW e, \A i \in 1 .. Len(c) : e[i] = c[i] PROVE SubSeq(e, 1, Len(c)) = c
    <2>1. \A i \in 1 .. Len(c) : e[i] \in 1 .. n
      BY <1>2, <1>10, ElementOfSeq
    <2>2. /\ SubSeq(e, 1, Len(c)) \in Seq(1 .. n) /\ Len(SubSeq(e, 1, Len(c))) = Len(c)
          /\ \A i \in 1 .. Len(c) : SubSeq(e, 1, Len(c))[i] = e[i]
      BY <1>3, <2>1, SubSeqProperties
    <2> QED BY <1>2, <1>10, <2>2, SeqEqual
  <1>11. SubSeq(d, 1, Len(c)) = c /\ SubSeq(t, 1, Len(c)) = c
    <2>1. \A i \in 1 .. Len(c) : t[i] = c[i]
      BY <1>3, <1>6
    <2> QED BY <1>3, <1>10, <2>1
  <1> QED BY <1>3, <1>4, <1>5, <1>7, <1>8, <1>9, <1>11 DEF t, d

\* What an append may leave in the file begins with what was there before, and what
\* is complete of it ends with one of the new records, or with none.
LEMMA PiecesTyped ==
  ASSUME left.records \in 1 .. MaxRecords + 1,
         NEW c \in Contents, ~IsTorn(c), NEW recs \in Seq(1 .. left.records - 1)
  PROVE  /\ c \in Pieces(c, recs) /\ c \o recs \in Pieces(c, recs)
         /\ \A p \in Pieces(c, recs) :
              /\ p \in Contents /\ Len(p) >= Len(c) /\ SubSeq(p, 1, Len(c)) = c
              /\ Len(p) = Len(c) => p = c
              /\ \E k \in 0 .. Len(recs) : Complete(p) = c \o SubSeq(recs, 1, k)
  <1> DEFINE n == left.records - 1
  <1>1. n \in Nat /\ left.records \in Nat /\ Len(recs) \in Nat /\ c \in Seq(1 .. n)
        /\ Len(c) \in Nat
    BY Bounds, WholeContent, LenProperties
  <1>2. ASSUME NEW k \in 0 .. Len(recs)
        PROVE  SubSeq(recs, 1, k) \in Seq(1 .. n) /\ Len(SubSeq(recs, 1, k)) = k
    <2>1. \A i \in 1 .. k : recs[i] \in 1 .. n
      BY <1>1, ElementOfSeq
    <2> QED BY <1>1, <2>1, SubSeqProperties
  <1>3. c \in Pieces(c, recs)
    <2>1. SubSeq(recs, 1, 0) = <<>>
      BY SubSeqEmpty
    <2>2. c \o SubSeq(recs, 1, 0) = c
      BY <1>1, <2>1, ConcatEmptySeq
    <2>3. 0 \in 0 .. Len(recs)
      BY <1>1
    <2> QED BY <2>2, <2>3 DEF Pieces
  <1>5. c \o recs \in Pieces(c, recs)
    <2>1. SubSeq(recs, 1, Len(recs)) = recs /\ Len(recs) \in 0 .. Len(recs)
      BY <1>1, SubSeqFull
    <2> QED BY <2>1 DEF Pieces
  <1>4. ASSUME NEW p \in Pieces(c, recs)
        PROVE  /\ p \in Contents /\ Len(p) >= Len(c) /\ SubSeq(p, 1, Len(c)) = c
               /\ Len(p) = Len(c) => p = c
               /\ \E k \in 0 .. Len(recs) : Complete(p) = c \o SubSeq(recs, 1, k)
    <2>1. PICK k \in 0 .. Len(recs) : p = c \o SubSeq(recs, 1, k)
                                      \/ p = Append(c \o SubSeq(recs, 1, k), Torn)
      <3>1. 0 .. Len(recs) - 1 \subseteq 0 .. Len(recs)
        BY <1>1
      <3> QED BY <1>4, <3>1 DEF Pieces
    <2> DEFINE r == SubSeq(recs, 1, k)
    <2>2. r \in Seq(1 .. n) /\ Len(r) = k
      BY <1>2
    <2>3. r = <<>> => c \o r = c
      BY <1>1, ConcatEmptySeq
    <2>4. k = 0 => r = <<>>
      BY <2>2, EmptySeq
    <2> HIDE DEF r
    <2>5. k \in Nat /\ Len(c) \in Nat
      BY <1>1
    <2>6. CASE p = c \o r
      <3>1. p \in Contents /\ ~IsTorn(p) /\ SubSeq(p, 1, Len(c)) = c
        BY <2>2, <2>6, Behind
      <3>2. Len(p) = Len(c) + k
        BY <2>2, <2>6, Behind
      <3>3. Complete(p) = c \o r
        BY <2>6, <3>1 DEF Complete
      <3>4. Len(p) >= Len(c) /\ (Len(p) = Len(c) => k = 0)
        BY <2>5, <3>2
      <3>5. Len(p) = Len(c) => p = c
        BY <2>3, <2>4, <2>6, <3>4
      <3> QED BY <3>1, <3>3, <3>4, <3>5 DEF r
    <2>7. CASE p = Append(c \o r, Torn)
      <3>1. p \in Contents /\ SubSeq(p, 1, Len(c)) = c /\ Complete(p) = c \o r
        BY <2>2, <2>7, Behind
      <3>2. Len(p) = Len(c) + k + 1
        BY <2>2, <2>7, Behind
      <3>3. Len(p) >= Len(c) /\ Len(p) # Len(c)
        BY <2>5, <3>2
      <3> QED BY <3>1, <3>3 DEF r
    <2> QED BY <2>1, <2>6, <2>7 DEF r
  <1> QED BY <1>3, <1>4, <1>5

\* What a truncation leaves is a content.
LEMMA CutTyped ==
  ASSUME left.records \in 1 .. MaxRecords + 1, NEW c \in Contents, NEW m \in 0 .. Len(c)
  PROVE  SubSeq(c, 1, m) \in Contents /\ Len(SubSeq(c, 1, m)) = m
  <1> DEFINE n == left.records - 1
  <1>1. /\ left.records \in Nat /\ Len(c) \in Nat /\ m \in Nat
        /\ \A i \in 1 .. Len(c) : c[i] \in Upto(n)
        /\ \A i \in 1 .. Len(c) - 1 : c[i] # Torn
    BY Bounds, ContentTyped
  <1>2. \A i \in 1 .. m : c[i] \in Upto(n)
    BY <1>1
  <1>3. /\ SubSeq(c, 1, m) \in Seq(Upto(n)) /\ Len(SubSeq(c, 1, m)) = m
        /\ \A i \in 1 .. m : SubSeq(c, 1, m)[i] = c[i]
    BY <1>1, <1>2, SubSeqProperties
  <1>4. \A i \in 1 .. Len(SubSeq(c, 1, m)) - 1 : SubSeq(c, 1, m)[i] # Torn
    BY <1>1, <1>3
  <1> QED BY <1>1, <1>3, <1>4, ContentMade

\* What an append adds to the document, and what of it may already be in the file.
LEMMA AddedTyped ==
  ASSUME left.records \in 1 .. MaxRecords + 1,
         NEW b \in Contents, NEW d \in Contents, IsStrictPrefix(b, d), ~IsTorn(d)
  PROVE  LET rest == SubSeq(d, Len(b) + 1, Len(d))
         IN  /\ ~IsTorn(b) /\ Len(b) < Len(d) /\ SubSeq(d, 1, Len(b)) = b
             /\ rest \in Seq(1 .. left.records - 1) /\ b \o rest = d
             /\ \A k \in 0 .. Len(rest) :
                  /\ Len(b) + k \in 0 .. Len(d)
                  /\ b \o SubSeq(rest, 1, k) = SubSeq(d, 1, Len(b) + k)
                  /\ IsPrefix(b, SubSeq(d, 1, Len(b) + k))
  <1> DEFINE S == 1 .. left.records - 1
             m == Len(b)
             rest == SubSeq(d, m + 1, Len(d))
  <1>1. d \in Seq(S) /\ m \in Nat /\ Len(d) \in Nat /\ b \in Seq(Nat)
    BY WholeContent, ContentTyped, Bounds
  <1>2. m <= Len(d) /\ b = SubSeq(d, 1, m) /\ b # d
    <2>1. m <= Len(d) /\ SubSeq(b, 1, m) = SubSeq(d, 1, m) /\ b # d
      BY DEF IsStrictPrefix, IsPrefix
    <2> QED BY <1>1, <2>1, SubSeqFull
  <1>3. m < Len(d)
    BY <1>1, <1>2, SubSeqFull
  <1> HIDE DEF S, m
  <1>4. b \in Seq(S) /\ \A i \in 1 .. m : b[i] = d[i]
    BY <1>1, <1>2, Parts
  <1>5. ~IsTorn(b)
    BY <1>4, RecordsAreContent DEF S
  <1>6. rest \in Seq(S) /\ Len(rest) = Len(d) - m /\ b \o rest = d
    <2>1. m \in 0 .. Len(d)
      BY <1>1, <1>2
    <2>2. rest \in Seq(S) /\ Len(rest) = Len(d) - m /\ SubSeq(d, 1, m) \o rest = d
      BY <1>1, <2>1, Parts
    <2> QED BY <1>2, <2>2
  <1>7. ASSUME NEW k \in 0 .. Len(rest)
        PROVE  /\ m + k \in 0 .. Len(d)
               /\ b \o SubSeq(rest, 1, k) = SubSeq(d, 1, m + k)
               /\ IsPrefix(b, SubSeq(d, 1, m + k))
    <2>1. k \in Nat /\ m + k \in 0 .. Len(d) /\ k \in 0 .. Len(d) - m
      BY <1>1, <1>3, <1>6
    <2>2. b \o SubSeq(rest, 1, k) = SubSeq(d, 1, m + k)
      BY <1>1, <1>2, <1>3, <2>1, Parts
    <2>3. /\ SubSeq(d, 1, m + k) \in Seq(S) /\ Len(SubSeq(d, 1, m + k)) = m + k
          /\ \A i \in 1 .. m + k : SubSeq(d, 1, m + k)[i] = d[i]
      BY <1>1, <2>1, Parts
    <2>4. \A i \in 1 .. m : SubSeq(d, 1, m + k)[i] = b[i]
      BY <1>1, <1>4, <2>1, <2>3
    <2>5. SubSeq(SubSeq(d, 1, m + k), 1, Len(b)) = b
      BY <1>4, <2>4, SameStart DEF m
    <2>6. SubSeq(b, 1, Len(b)) = b
      BY <1>4, SubSeqFull
    <2>7. Len(b) <= Len(SubSeq(d, 1, m + k))
      BY <1>1, <2>1, <2>3 DEF m
    <2> QED BY <2>1, <2>2, <2>5, <2>6, <2>7 DEF IsPrefix
  <1> QED BY <1>2, <1>3, <1>5, <1>6, <1>7 DEF S, m

\* What a call prepares from a document without torn records has none either,
\* and what an append prepares goes on where the document ends.
LEMMA PreparedTyped ==
  ASSUME left.records \in 1 .. MaxRecords + 1, gen \in Contents, ~IsTorn(gen),
         NEW c \in Calls, c.kind = "append" \/ c.old \in ToSet(gen)
  PROVE  /\ Prepared(c) \in Contents /\ ~IsTorn(Prepared(c))
         /\ c.kind = "append" /\ c.recs # <<>> => IsStrictPrefix(gen, Prepared(c))
  <1> DEFINE S == 1 .. left.records - 1
  <1>1. gen \in Seq(S) /\ Len(gen) \in Nat /\ DOMAIN gen = 1 .. Len(gen) /\ c.recs \in Seq(S)
        /\ Len(c.recs) \in Nat
    <2>1. gen \in Seq(S) /\ c.recs \in Seq(S)
      BY WholeContent DEF Calls
    <2> QED BY <2>1, LenProperties
  <1>2. \A d \in Seq(S) : d \in Contents /\ ~IsTorn(d)
    BY RecordsAreContent
  <1> HIDE DEF S
  <1>3. CASE c.kind = "append"
    <2>1. Prepared(c) = gen \o c.recs
      BY <1>3 DEF Prepared
    <2>2. /\ gen \o c.recs \in Seq(S) /\ Len(gen \o c.recs) = Len(gen) + Len(c.recs)
          /\ \A i \in 1 .. Len(gen) + Len(c.recs) : (gen \o c.recs)[i] =
               IF i <= Len(gen) THEN gen[i] ELSE c.recs[i - Len(gen)]
      BY <1>1, ConcatProperties
    <2> DEFINE d == gen \o c.recs
    <2>3. d \in Seq(S) /\ Len(d) = Len(gen) + Len(c.recs) /\ \A i \in 1 .. Len(gen) : d[i] = gen[i]
      BY <1>1, <2>2
    <2> HIDE DEF d
    <2>4. c.recs # <<>> => gen # d
      <3>1. c.recs # <<>> => Len(c.recs) >= 1
        BY <1>1, EmptySeq
      <3>2. c.recs # <<>> => Len(d) # Len(gen)
        <4>1. Len(gen) \in Nat /\ Len(c.recs) \in Nat
          BY <1>1
        <4>2. Len(d) = Len(gen) + Len(c.recs)
          BY <2>3
        <4> QED BY <3>1, <4>1, <4>2
      <3> QED BY <3>2
    <2>5. SubSeq(d, 1, Len(gen)) = gen /\ SubSeq(gen, 1, Len(gen)) = gen
      BY <1>1, <2>3, SameStart, SubSeqFull
    <2>6. Len(gen) <= Len(d)
      BY <1>1, <2>3
    <2>7. IsPrefix(gen, d)
      BY <2>5, <2>6 DEF IsPrefix
    <2>8. c.recs # <<>> => IsStrictPrefix(gen, d)
      BY <2>4, <2>7 DEF IsStrictPrefix
    <2> QED BY <1>2, <2>1, <2>3, <2>8 DEF d
  <1>4. CASE c.kind # "append"
    <2> DEFINE i == CHOOSE j \in DOMAIN gen : gen[j] = c.old
    <2>1. i \in 1 .. Len(gen)
      <3>1. \E j \in DOMAIN gen : gen[j] = c.old
        BY <1>4 DEF ToSet
      <3> QED BY <1>1, <3>1
    <2>2. Prepared(c) = SubSeq(gen, 1, i - 1) \o c.recs \o SubSeq(gen, i + 1, Len(gen))
      BY <1>4 DEF Prepared
    <2> HIDE DEF i
    <2>3. i - 1 \in 0 .. Len(gen) /\ i \in 0 .. Len(gen)
      BY <1>1, <2>1
    <2>4. SubSeq(gen, 1, i - 1) \in Seq(S) /\ SubSeq(gen, i + 1, Len(gen)) \in Seq(S)
      BY <1>1, <2>3, Parts
    <2>5. SubSeq(gen, 1, i - 1) \o c.recs \in Seq(S)
      BY <1>1, <2>4, ConcatProperties
    <2>6. Prepared(c) \in Seq(S)
      BY <2>2, <2>4, <2>5, ConcatProperties
    <2> QED BY <1>2, <1>4, <2>6
  <1> QED BY <1>3, <1>4

\* What another program has written is a content that nobody has seen before.
LEMMA EditTyped ==
  ASSUME left.records \in 1 .. MaxRecords, left'.records = left.records + 1,
         NEW c \in Contents, ~IsTorn(c),
         NEW f, f = Append(c, left.records) \/ (c # <<>> /\ f = Append(Front(c), left.records))
  PROVE  /\ f \in Contents' /\ ~IsTorn(f) /\ f \notin Contents /\ Len(f) >= Len(c)
         /\ left'.records \in 1 .. MaxRecords + 1
  <1> DEFINE n == left.records
             S == 1 .. n
  <1>1. n \in Nat /\ n >= 1 /\ left'.records \in 1 .. MaxRecords + 1 /\ left'.records - 1 = n
    BY Bounds
  <1>2. c \in Seq(S) /\ Len(c) \in Nat
    <2>1. c \in Seq(1 .. n - 1)
      BY WholeContent, Bounds
    <2>2. 1 .. n - 1 \subseteq S
      OBVIOUS
    <2>3. c \in Seq(S)
      BY <2>1, <2>2, SeqMonotonic
    <2> QED BY <2>3, LenProperties
  <1>3. PICK b \in Seq(S) : f = Append(b, n) /\ Len(b) + 1 >= Len(c) /\ Len(b) \in Nat
    <2>1. CASE f = Append(c, n)
      <3>1. Len(c) + 1 >= Len(c)
        BY <1>2
      <3> QED BY <1>2, <2>1, <3>1
    <2>2. CASE c # <<>> /\ f = Append(Front(c), n)
      <3>1. Len(c) - 1 \in 0 .. Len(c) /\ Len(c) - 1 \in Nat /\ Len(c) - 1 + 1 >= Len(c)
        BY <1>2, <2>2, EmptySeq
      <3>2. Front(c) \in Seq(S) /\ Len(Front(c)) = Len(c) - 1
        BY <1>2, <3>1, Parts DEF Front
      <3> QED BY <2>2, <3>1, <3>2
    <2> QED BY <2>1, <2>2
  <1>4. /\ f \in Seq(S) /\ f # <<>> /\ Len(f) = Len(b) + 1 /\ f[Len(f)] = n
    <2>1. n \in S
      BY <1>1
    <2> QED BY <1>3, <2>1, AppendProperties
  <1>5. f \in Seq(1 .. left'.records - 1)
    BY <1>1, <1>4
  <1>6. f \in Contents'
    <2>1. \A i \in 1 .. Len(f) : f[i] \in S
      BY <1>4, ElementOfSeq
    <2>2. Len(f) \in Nat
      BY <1>3, <1>4
    <2>3. \A i \in 1 .. Len(f) - 1 : f[i] # Torn
      BY <1>1, <2>1, <2>2 DEF Torn
    <2>4. S \subseteq {Torn} \cup 1 .. left'.records - 1
      BY <1>1
    <2>5. f \in Seq({Torn} \cup 1 .. left'.records - 1)
      BY <1>4, <2>4, SeqMonotonic
    <2> QED BY <2>3, <2>5 DEF Contents
  <1>7. ~IsTorn(f)
    BY <1>1, <1>4 DEF IsTorn, Last, Torn
  <1>8. f \notin Contents
    <2>1. SUFFICES ASSUME f \in Contents PROVE FALSE
      OBVIOUS
    <2>2. Len(f) \in Nat /\ Len(f) >= 1
      BY <1>3, <1>4
    <2>3. f[Len(f)] \in Upto(left.records - 1)
      BY <1>1, <2>1, <2>2, ContentTyped
    <2> QED BY <1>1, <1>4, <2>3 DEF Upto, Torn
  <1>9. Len(f) >= Len(c)
    BY <1>2, <1>3, <1>4
  <1> QED BY <1>1, <1>6, <1>7, <1>8, <1>9

-----------------------------------------------------------------------------
(* What the steps have in common                                           *)

\* What is known of the parts of the state.
LEMMA Known ==
  ASSUME Typed
  PROVE  /\ left \in LeftType /\ left.records \in 1 .. MaxRecords + 1 /\ left.records \in Nat
         /\ disk \in DiskType /\ disk.file \in Contents /\ disk.dirty \subseteq Contents
         /\ disk.stale \subseteq Contents /\ disk.latest \in Optional /\ disk.kept \in Optional
         /\ store \in StoreType /\ gen \in Optional /\ calls \in Seq(Calls)
         /\ op \in OpType /\ op.before \in Contents /\ op.next \in Contents
         /\ op.temp \subseteq Contents /\ backup \in BackupType /\ closer \in CloserType
         /\ told \in ToldType /\ told.log \in Contents /\ told.loose \subseteq Contents
         /\ told.edited \in BOOLEAN /\ told.late \in BOOLEAN
         /\ path \in Seq({"op", "backup", "preview"})
  <1>1. left \in LeftType /\ left.records \in 1 .. MaxRecords + 1 /\ left.records \in Nat
    BY Bounds DEF Typed, LeftType
  <1>2. /\ disk.file \in Contents /\ disk.dirty \subseteq Contents
        /\ disk.stale \subseteq Contents /\ disk.latest \in Optional /\ disk.kept \in Optional
    BY DEF Typed, DiskType
  <1>3. op.before \in Contents /\ op.next \in Contents /\ op.temp \subseteq Contents
    BY DEF Typed, OpType
  <1>4. told.log \in Contents /\ told.loose \subseteq Contents
        /\ told.edited \in BOOLEAN /\ told.late \in BOOLEAN
    BY DEF Typed, ToldType
  <1> QED BY <1>1, <1>2, <1>3, <1>4 DEF Typed

\* A fault uses up one of the faults, and nothing else.
LEMMA LeftStays ==
  ASSUME left \in LeftType, Works \/ Fails
  PROVE  left' \in LeftType /\ left'.records = left.records
  BY DEF LeftType, Works, Fails

\* A running call has its place among the calls, and one in the store its path.
LEMMA Runs ==
  ASSUME StoreInv, op.at # "idle"
  PROVE  calls # <<>>
  BY DEF StoreInv, CallHolds

\* What is left when a call has ended.
Ready ==
  /\ ~IsTorn(told.log) /\ disk.file \in disk.dirty
  /\ Accepting => gen = told.log /\ LogsOf(disk.stale) \subseteq told.loose
  /\ Accepting /\ ~told.edited
       => disk.file = gen /\ LogsOf(disk.dirty) \subseteq {gen} \cup told.loose

\* A call that returns leaves the invariant when it leaves the file Ready.
LEMMA Answered ==
  ASSUME StoreInv, calls # <<>>,
         (op.at \in Outside /\ AnswerUnlocked) \/ (HasPath("op") /\ AnswerLocked),
         left' \in LeftType, left'.records = left.records,
         disk' \in DiskType, disk'.latest = disk.latest,
         store' \in StoreType, store'.closing = store.closing,
         gen' \in Optional, told' \in ToldType, Ready'
  PROVE  StoreInv'
  <1> USE DEF StoreInv
  <1>1. /\ Contents' = Contents /\ Optional' = Optional /\ Calls' = Calls
        /\ DiskType' = DiskType /\ OpType' = OpType /\ BackupType' = BackupType
        /\ ToldType' = ToldType
    BY TypesStay
  <1>2. Answer /\ op' = NoOp /\ calls' = Tail(calls)
    BY DEF AnswerUnlocked, AnswerLocked, Answer
  <1>3. op' \in OpType /\ op'.at = "idle" /\ op'.kind = "none"
    <2>1. <<>> \in Contents /\ NoOp.at = "idle" /\ NoOp.kind = "none"
      BY Known, EmptyContent DEF NoOp
    <2> QED BY <1>2, <2>1 DEF NoOp, OpType, Outside
  <1>4. /\ backup' \in BackupType /\ backup'.maintenance = FALSE
        /\ backup'.job = backup.job /\ backup'.preview = backup.preview
        /\ backup'.manifest = backup.manifest /\ backup'.token = backup.token
        /\ backup'.failed = backup.failed
    BY <1>2, Known DEF Answer, BackupType, CallHolds
  <1>5. closer' \in CloserType /\ closer'.at = closer.at
    BY <1>2, Known DEF Answer, CloserType
  <1>6. calls' \in Seq(Calls) /\ \A i \in DOMAIN calls' : calls'[i].kind = "append" => calls'[i].recs # <<>>
    <2>1. /\ calls' \in Seq(Calls) /\ Len(calls') = Len(calls) - 1
          /\ \A i \in 1 .. Len(calls') : calls'[i] = calls[i + 1]
      BY <1>2, Known, HeadTailProperties
    <2>2. Len(calls) \in Nat /\ DOMAIN calls = 1 .. Len(calls) /\ DOMAIN calls' = 1 .. Len(calls')
      BY <2>1, Known, LenProperties
    <2>3. \A i \in DOMAIN calls' : i + 1 \in DOMAIN calls /\ calls'[i] = calls[i + 1]
      BY <2>1, <2>2
    <2> QED BY <2>1, <2>3 DEF CallHolds
  <1>7. /\ path' \in Seq({"op", "backup", "preview"}) /\ IsInjective(path')
        /\ ToSet(path') = ToSet(path) \ {"op"}
        /\ closer.at = "closed" => path' = <<>>
    <2>1. CASE op.at \in Outside /\ AnswerUnlocked
      BY <2>1, Known DEF AnswerUnlocked, QueueHolds
    <2>2. CASE HasPath("op") /\ AnswerLocked
      BY <2>2, Known, Leaves DEF AnswerLocked, HasPath, QueueHolds
    <2> QED BY <2>1, <2>2
  <1>8. Typed'
    BY <1>1, <1>3, <1>4, <1>5, <1>6, <1>7 DEF Typed
  <1>9. QueueHolds'
    BY <1>3, <1>4, <1>5, <1>7 DEF QueueHolds, Outside, Appending, Replacing
  <1>10. CallHolds'
    BY <1>3, <1>4, <1>6 DEF CallHolds, Appending, Replacing
  <1>11. BackupHolds'
    BY <1>3, <1>4 DEF BackupHolds
  <1>12. DocumentHolds' /\ FileHolds' /\ Untouched' /\ ReplacementHolds'
    BY <1>3 DEF Ready, DocumentHolds, FileHolds, Untouched, ReplacementHolds, Appending, Replacing
  <1> QED BY <1>8, <1>9, <1>10, <1>11, <1>12

\* A call that stays in the middle of its operation leaves what concerns the others.
LEMMA Proceeds ==
  ASSUME StoreInv, HasPath("op"), op.at \notin Outside,
         op' \in OpType, op'.kind = op.kind,
         \/ op.kind = "append" /\ op'.at \in Appending
         \/ op.kind \in {"rewrite", "restore"} /\ op'.at \in Replacing,
         UNCHANGED <<calls, path, backup, closer>>,
         left' \in LeftType, left'.records = left.records,
         disk' \in DiskType, disk'.latest = disk.latest,
         store' \in StoreType, store'.closing = store.closing,
         gen' \in Optional, told' \in ToldType,
         DocumentHolds', FileHolds', Untouched', ReplacementHolds'
  PROVE  StoreInv'
  <1> USE DEF StoreInv
  <1>1. /\ Contents' = Contents /\ Optional' = Optional /\ Calls' = Calls
        /\ DiskType' = DiskType /\ OpType' = OpType /\ BackupType' = BackupType
        /\ ToldType' = ToldType
    BY TypesStay
  <1>2. Typed'
    BY <1>1 DEF Typed
  <1>3. op'.at \notin Outside
    BY DEF Outside, Appending, Replacing
  <1>4. QueueHolds'
    BY <1>3 DEF QueueHolds, HasPath
  <1>5. CallHolds'
    BY DEF CallHolds, Outside, Appending, Replacing
  <1>6. BackupHolds'
    BY DEF BackupHolds, Outside, Appending, Replacing
  <1> QED BY <1>2, <1>4, <1>5, <1>6

\* A step beside the running call leaves what concerns the call, the document and the file.
LEMMA Beside ==
  ASSUME StoreInv, UNCHANGED <<gen, op, told>>, store'.state = store.state,
         disk'.file = disk.file, disk'.dirty = disk.dirty, disk'.stale = disk.stale,
         disk'.kept = disk.kept
  PROVE  DocumentHolds' /\ FileHolds' /\ Untouched' /\ ReplacementHolds'
  BY DEF StoreInv, DocumentHolds, FileHolds, Untouched, ReplacementHolds, Accepting, LogsOf

\* The part of the invariant that a call between its operations on the file has to show.
LEMMA Settled ==
  ASSUME StoreInv, op.at \in Outside \cup {"waiting", "write", "temp", "tempSync", "recheck", "rename"}
  PROVE  Ready
  <1>1. op.at \notin (Appending \ {"write"}) \cup {"dirSync", "renamed"}
    BY DEF Outside, Appending
  <1> QED BY <1>1 DEF StoreInv, DocumentHolds, FileHolds, Untouched, Ready

\* What is Ready stays so where the store accepts nothing any more.
LEMMA Refused ==
  ASSUME StoreInv, UNCHANGED <<disk, told>>, ~Accepting'
  PROVE  Ready'
  BY DEF StoreInv, Ready, DocumentHolds, FileHolds

\* Ready concerns the document, the clients and the disk only.
LEMMA StillReady ==
  ASSUME Ready, UNCHANGED <<gen, told>>, store'.state = store.state,
         disk'.file = disk.file, disk'.dirty = disk.dirty, disk'.stale = disk.stale
  PROVE  Ready'
  BY DEF Ready, Accepting, LogsOf

-----------------------------------------------------------------------------
(* The initial state, and the steps beside the running call                *)

\* What a process starts with.
LEMMA Fresh ==
  ASSUME left.records \in Nat
  PROVE  /\ NoOp \in OpType /\ NoOp.at = "idle" /\ NoOp.kind = "none"
         /\ NoBackup \in BackupType /\ NoBackup.maintenance = FALSE /\ NoBackup.job = "idle"
         /\ NoBackup.preview = "none" /\ NoBackup.manifest = NoContent
         /\ NoBackup.token = NoContent
         /\ <<Reopening>> \in Seq(Calls)
         /\ \A i \in DOMAIN <<Reopening>> : <<Reopening>>[i].kind # "append"
         /\ NoContent \in Optional /\ <<>> \in Seq({"op", "backup", "preview"})
         /\ IsInjective(<<>>) /\ ToSet(<<>>) = {}
  <1>1. <<>> \in Contents
    BY EmptyContent
  <1>2. NoOp \in OpType /\ NoOp.at = "idle" /\ NoOp.kind = "none"
    BY <1>1 DEF NoOp, OpType, Outside
  <1>3. NoContent \in Optional
    BY DEF Optional
  <1>4. /\ NoBackup \in BackupType /\ NoBackup.maintenance = FALSE /\ NoBackup.job = "idle"
        /\ NoBackup.preview = "none" /\ NoBackup.manifest = NoContent
        /\ NoBackup.token = NoContent
    BY <1>1, <1>3 DEF NoBackup, BackupType
  <1>5. Reopening \in Calls /\ Reopening.kind # "append"
    <2>1. <<>> \in Seq(1 .. left.records - 1)
      BY EmptySeq
    <2> QED BY <2>1 DEF Reopening, Calls
  <1>6. <<>> \in Seq({"op", "backup", "preview"}) /\ IsInjective(<<>>) /\ ToSet(<<>>) = {}
    BY DEF IsInjective, ToSet
  <1> QED BY <1>2, <1>3, <1>4, <1>5, <1>6

\* The first process starts with the invariant.
LEMMA InitInvariant ==
  ASSUME Init
  PROVE  StoreInv
  <1>1. left.records = 1 /\ left \in LeftType
    BY Bounds DEF Init, LeftType
  <1>2. /\ NoOp \in OpType /\ NoOp.at = "idle" /\ NoOp.kind = "none"
        /\ NoBackup \in BackupType /\ NoBackup.maintenance = FALSE /\ NoBackup.job = "idle"
        /\ NoBackup.preview = "none" /\ NoBackup.manifest = NoContent
        /\ NoBackup.token = NoContent
        /\ <<Reopening>> \in Seq(Calls)
        /\ \A i \in DOMAIN <<Reopening>> : <<Reopening>>[i].kind # "append"
        /\ NoContent \in Optional /\ <<>> \in Seq({"op", "backup", "preview"})
        /\ IsInjective(<<>>) /\ ToSet(<<>>) = {}
    <2>1. left.records \in Nat
      BY <1>1
    <2> QED BY <2>1, Fresh
  <1>3. <<>> \in Contents /\ ~IsTorn(<<>>) /\ Complete(<<>>) = <<>>
    BY <1>1, EmptyContent
  <1>4. Typed
    <2>1. disk \in DiskType
      BY <1>2, <1>3 DEF Init, DiskType
    <2>2. store \in StoreType /\ closer \in CloserType
      BY DEF Init, StoreType, CloserType
    <2>3. told \in ToldType
      BY <1>3 DEF Init, ToldType
    <2> QED BY <1>1, <1>2, <2>1, <2>2, <2>3 DEF Init, Typed
  <1>5. QueueHolds
    BY <1>2 DEF Init, QueueHolds, Outside, Appending, Replacing
  <1>6. CallHolds
    BY <1>2 DEF Init, CallHolds, Appending, Replacing
  <1>7. BackupHolds
    BY <1>2 DEF Init, BackupHolds
  <1>8. DocumentHolds /\ FileHolds /\ Untouched /\ ReplacementHolds
    BY <1>2, <1>3 DEF Init, DocumentHolds, FileHolds, Untouched, ReplacementHolds,
       Accepting, Appending, Replacing
  <1> QED BY <1>4, <1>5, <1>6, <1>7, <1>8 DEF StoreInv

\* A process that starts finds the file, and knows nothing yet.
LEMMA BootInvariant ==
  ASSUME StoreInv, Boot, UNCHANGED told,
         left' \in LeftType, left'.records = left.records,
         disk' \in DiskType, disk'.latest = disk.latest, disk'.file \in disk'.dirty
  PROVE  StoreInv'
  <1> USE DEF StoreInv
  <1>1. /\ Contents' = Contents /\ Optional' = Optional /\ Calls' = Calls
        /\ DiskType' = DiskType /\ OpType' = OpType /\ BackupType' = BackupType
        /\ ToldType' = ToldType
    BY TypesStay
  <1>2. /\ NoOp \in OpType /\ NoOp.at = "idle" /\ NoOp.kind = "none"
        /\ NoBackup \in BackupType /\ NoBackup.maintenance = FALSE /\ NoBackup.job = "idle"
        /\ NoBackup.preview = "none" /\ NoBackup.manifest = NoContent
        /\ NoBackup.token = NoContent
        /\ <<Reopening>> \in Seq(Calls)
        /\ \A i \in DOMAIN <<Reopening>> : <<Reopening>>[i].kind # "append"
        /\ NoContent \in Optional /\ <<>> \in Seq({"op", "backup", "preview"})
        /\ IsInjective(<<>>) /\ ToSet(<<>>) = {}
    BY Known, Fresh
  <1>3. Typed'
    <2>1. store' \in StoreType /\ closer' \in CloserType
      BY DEF Boot, StoreType, CloserType
    <2> QED BY <1>1, <1>2, <2>1 DEF Boot, Typed
  <1>4. QueueHolds'
    BY <1>2 DEF Boot, QueueHolds, Outside, Appending, Replacing
  <1>5. CallHolds'
    BY <1>2 DEF Boot, CallHolds, Appending, Replacing
  <1>6. BackupHolds'
    BY <1>2 DEF Boot, BackupHolds
  <1>7. DocumentHolds' /\ FileHolds' /\ Untouched' /\ ReplacementHolds'
    BY <1>2 DEF Boot, DocumentHolds, FileHolds, Untouched, ReplacementHolds,
       Accepting, Appending, Replacing
  <1> QED BY <1>3, <1>4, <1>5, <1>6, <1>7

\* So does one that starts after a crash or a power failure.
LEMMA RestartInvariant ==
  ASSUME StoreInv, Restart \/ PowerLoss
  PROVE  StoreInv'
  <1>1. /\ Boot /\ UNCHANGED told
        /\ left' \in LeftType /\ left'.records = left.records
    <2>1. left \in LeftType
      BY DEF StoreInv, Typed
    <2>2. Boot /\ UNCHANGED told
      BY DEF Restart, PowerLoss
    <2>3. left.crashes > 0 /\ left' = [left EXCEPT !.crashes = @ - 1]
      BY DEF Restart, PowerLoss
    <2> QED BY <2>1, <2>2, <2>3 DEF LeftType
  <1>2. disk' \in DiskType /\ disk'.latest = disk.latest /\ disk'.file \in disk'.dirty
    <2>1. CASE Restart
      BY <2>1, Known DEF StoreInv, Restart, FileHolds
    <2>2. CASE PowerLoss
      <3>1. PICK f \in AfterPowerLoss :
              disk' = [disk EXCEPT !.file = f, !.dirty = {f}, !.stale = {}]
        BY <2>2 DEF PowerLoss
      <3>2. f \in Contents /\ disk \in DiskType
        BY Known DEF StoreInv, AfterPowerLoss
      <3> QED BY <3>1, <3>2 DEF DiskType
    <2> QED BY <2>1, <2>2
  <1> QED BY <1>1, <1>2, BootInvariant

\* When records are handed out, what was a state before still is one.
LEMMA Grows ==
  ASSUME Typed, left' \in LeftType, left.records <= left'.records
  PROVE  /\ disk \in DiskType' /\ op \in OpType' /\ backup \in BackupType' /\ told \in ToldType'
         /\ gen \in Optional' /\ calls \in Seq(Calls') /\ Contents \subseteq Contents'
  <1>1. /\ Contents \subseteq Contents' /\ Optional \subseteq Optional'
        /\ SUBSET Contents \subseteq SUBSET (Contents') /\ Calls \subseteq Calls'
    <2>1. left'.records \in Nat
      BY Bounds DEF LeftType
    <2> QED BY <2>1, Known, ContentsGrow
  <1>2. disk \in DiskType'
    BY <1>1, Known DEF DiskType
  <1>3. op \in OpType'
    BY <1>1, Known DEF OpType
  <1>4. backup \in BackupType'
    BY <1>1, Known DEF BackupType
  <1>5. told \in ToldType'
    BY <1>1, Known DEF ToldType
  <1>6. calls \in Seq(Calls')
    BY <1>1, Known, SeqMonotonic
  <1> QED BY <1>1, <1>2, <1>3, <1>4, <1>5, <1>6, Known

\* A call that is asked for waits behind the others.
LEMMA EnqueueInvariant ==
  ASSUME StoreInv, NEW c, Enqueue(c), c \in Calls', c.kind = "append" => c.recs # <<>>,
         left' \in LeftType, left.records <= left'.records
  PROVE  StoreInv'
  <1> USE DEF StoreInv
  <1>1. UNCHANGED <<disk, store, gen, op, path, backup, closer, told>> /\ calls' = Append(calls, c)
    BY DEF Enqueue
  <1>2. /\ disk \in DiskType' /\ op \in OpType' /\ backup \in BackupType' /\ told \in ToldType'
        /\ gen \in Optional' /\ calls \in Seq(Calls')
    BY Grows
  <1>3. /\ calls' \in Seq(Calls') /\ calls' # <<>>
        /\ \A i \in DOMAIN calls' : calls'[i].kind = "append" => calls'[i].recs # <<>>
    <2>1. /\ calls' \in Seq(Calls') /\ calls' # <<>> /\ Len(calls') = Len(calls) + 1
          /\ \A i \in 1 .. Len(calls) : calls'[i] = calls[i]
          /\ calls'[Len(calls) + 1] = c
      BY <1>1, <1>2, AppendProperties
    <2>2. Len(calls) \in Nat /\ DOMAIN calls = 1 .. Len(calls) /\ DOMAIN calls' = 1 .. Len(calls')
      BY <1>2, <2>1, LenProperties
    <2>3. \A i \in DOMAIN calls' : i \in DOMAIN calls \/ i = Len(calls) + 1
      BY <2>1, <2>2
    <2> QED BY <2>1, <2>2, <2>3 DEF CallHolds
  <1>4. Typed'
    BY <1>1, <1>2, <1>3 DEF Typed
  <1>5. QueueHolds' /\ BackupHolds'
    BY <1>1 DEF QueueHolds, BackupHolds, HasPath
  <1>6. CallHolds'
    BY <1>1, <1>3 DEF CallHolds
  <1>7. DocumentHolds' /\ FileHolds' /\ Untouched' /\ ReplacementHolds'
    BY <1>1, Beside
  <1> QED BY <1>4, <1>5, <1>6, <1>7

\* The records that a call or an edit is given.
LEMMA Given ==
  ASSUME left \in LeftType, NEW n \in Nat, left.records + n <= MaxRecords + 1,
         \/ left.calls > 0 /\ left' = [left EXCEPT !.calls = @ - 1, !.records = @ + n]
         \/ left.edits > 0 /\ left' = [left EXCEPT !.edits = @ - 1, !.records = @ + n]
  PROVE  left' \in LeftType /\ left'.records = left.records + n /\ left.records <= left'.records
  <1>1. /\ left.records \in Nat /\ left.records + n \in 1 .. MaxRecords + 1
        /\ left.records <= left.records + n
    BY Bounds DEF LeftType
  <1> DEFINE k == left.records + n
  <1>2. CASE left.calls > 0 /\ left' = [left EXCEPT !.calls = @ - 1, !.records = @ + n]
    <2>1. left.calls - 1 \in Nat
      BY <1>2 DEF LeftType
    <2> DEFINE m == left.calls - 1
    <2>2. left' = [left EXCEPT !.calls = m, !.records = k] /\ m \in Nat /\ k \in 1 .. MaxRecords + 1
      BY <1>1, <1>2, <2>1
    <2> HIDE DEF m, k
    <2>3. left' \in LeftType /\ left'.records = k
      BY <2>2 DEF LeftType
    <2> QED BY <1>1, <2>3 DEF k
  <1>3. CASE left.edits > 0 /\ left' = [left EXCEPT !.edits = @ - 1, !.records = @ + n]
    <2>1. left.edits - 1 \in Nat
      BY <1>3 DEF LeftType
    <2> DEFINE m == left.edits - 1
    <2>2. left' = [left EXCEPT !.edits = m, !.records = k] /\ m \in Nat /\ k \in 1 .. MaxRecords + 1
      BY <1>1, <1>3, <2>1
    <2> HIDE DEF m, k
    <2>3. left' \in LeftType /\ left'.records = k
      BY <2>2 DEF LeftType
    <2> QED BY <1>1, <2>3 DEF k
  <1> QED BY <1>2, <1>3

\* The calls of the clients.
LEMMA ClientInvariant ==
  ASSUME StoreInv,
         \/ \E n \in 1 .. 2 : CallAppend(n)
         \/ \E r \in Records : CallUpdate(r) \/ CallDelete(r)
         \/ CallReopen \/ CallRestore
  PROVE  StoreInv'
  <1>1. /\ left \in LeftType /\ left.records \in 1 .. MaxRecords + 1 /\ left.records \in Nat
        /\ MaxRecords \in Nat
    BY Known, Bounds DEF StoreInv
  <1>2. ASSUME NEW n \in 1 .. 2, CallAppend(n) PROVE StoreInv'
    <2> DEFINE recs == [i \in 1 .. n |-> left.records + i - 1]
               c == [kind |-> "append", old |-> Torn, recs |-> recs]
    <2>1. /\ Enqueue(c) /\ left.records + n - 1 <= MaxRecords /\ left.calls > 0
          /\ left' = [left EXCEPT !.calls = @ - 1, !.records = @ + n]
      BY <1>2 DEF CallAppend, Enqueue
    <2>2. left' \in LeftType /\ left'.records = left.records + n
      <3>1. n \in Nat /\ left.records + n <= MaxRecords + 1
        BY <1>1, <2>1
      <3> QED BY <1>1, <2>1, <3>1, Given
    <2>3. recs \in Seq(1 .. left'.records - 1) /\ recs # <<>>
      <3>1. \A i \in 1 .. n : left.records + i - 1 \in 1 .. left'.records - 1
        BY <1>1, <2>2
      <3>2. n \in Nat /\ recs \in [1 .. n -> 1 .. left'.records - 1]
        BY <3>1
      <3>3. 1 \in DOMAIN recs
        OBVIOUS
      <3> QED BY <3>2, <3>3, SeqDef
    <2>4. c \in Calls'
      BY <2>3 DEF Calls
    <2>5. left.records <= left'.records
      BY <1>1, <2>2
    <2>6. c.recs # <<>>
      BY <2>3
    <2> HIDE DEF c
    <2> QED BY <2>1, <2>2, <2>4, <2>5, <2>6, EnqueueInvariant
  <1>3. ASSUME NEW r \in Records, CallUpdate(r) PROVE StoreInv'
    <2> DEFINE c == [kind |-> "rewrite", old |-> r, recs |-> <<left.records>>]
    <2>1. /\ Enqueue(c) /\ left.records <= MaxRecords /\ left.calls > 0
          /\ left' = [left EXCEPT !.calls = @ - 1, !.records = @ + 1]
      BY <1>3 DEF CallUpdate, Enqueue
    <2>2. left' \in LeftType /\ left'.records = left.records + 1
      <3>1. left.records + 1 <= MaxRecords + 1
        BY <1>1, <2>1
      <3> QED BY <1>1, <2>1, <3>1, Given
    <2>3. left.records \in 1 .. left'.records - 1
      BY <1>1, <2>2
    <2>4. <<left.records>> \in Seq(1 .. left'.records - 1)
      BY <2>3
    <2>5. c \in Calls' /\ c.kind = "rewrite"
      BY <2>4 DEF Calls
    <2>6. left.records <= left'.records
      BY <1>1, <2>2
    <2> HIDE DEF c
    <2> QED BY <2>1, <2>2, <2>5, <2>6, EnqueueInvariant
  <1>4. ASSUME NEW c, c \in Calls', c.kind # "append", Enqueue(c),
               left' = [left EXCEPT !.calls = @ - 1]
        PROVE  StoreInv'
    <2>1. left.calls > 0
      BY <1>4 DEF Enqueue
    <2>2. left' \in LeftType /\ left'.records = left.records
      BY <1>1, <1>4, <2>1 DEF LeftType
    <2>3. left.records <= left'.records
      BY <1>1, <2>2
    <2> QED BY <1>4, <2>2, <2>3, EnqueueInvariant
  <1>5. <<>> \in Seq(1 .. left'.records - 1)
    BY EmptySeq
  <1>6. ASSUME NEW r \in Records, CallDelete(r) PROVE StoreInv'
    BY <1>4, <1>5, <1>6 DEF CallDelete, Calls
  <1>7. CASE CallReopen
    BY <1>4, <1>5, <1>7 DEF CallReopen, Calls, Reopening
  <1>8. CASE CallRestore
    BY <1>4, <1>5, <1>8 DEF CallRestore, Calls
  <1> QED BY <1>2, <1>3, <1>6, <1>7, <1>8

\* Another program writes to the file.
LEMMA EditInvariant ==
  ASSUME StoreInv, Edit
  PROVE  StoreInv'
  <1> USE DEF StoreInv
  <1>1. /\ left.records \in 1 .. MaxRecords + 1 /\ left.records \in Nat /\ left.records <= MaxRecords
        /\ MaxRecords \in Nat
    BY Known, Bounds DEF Edit
  <1>2. left' \in LeftType /\ left'.records = left.records + 1
    <2>1. left \in LeftType /\ left.edits > 0
          /\ left' = [left EXCEPT !.edits = @ - 1, !.records = @ + 1]
      BY Known DEF Edit
    <2>2. left.records + 1 <= MaxRecords + 1
      BY <1>1
    <2> QED BY <2>1, <2>2, Given
  <1>3. PICK f : /\ f = Append(disk.file, left.records)
                    \/ (disk.file # <<>> /\ f = Append(Front(disk.file), left.records))
                 /\ disk' = [disk EXCEPT !.file = f, !.dirty = @ \cup {f}]
    BY DEF Edit
  <1>4. /\ ~IsTorn(disk.file)
        /\ told' = [told EXCEPT !.edited = TRUE, !.late = @ \/ op.at = "rename"]
        /\ UNCHANGED <<store, gen, calls, op, path, backup, closer>>
    BY DEF Edit
  <1>5. /\ f \in Contents' /\ ~IsTorn(f) /\ f \notin Contents /\ Len(f) >= Len(disk.file)
    <2>1. left.records \in 1 .. MaxRecords
      BY <1>1
    <2>2. disk.file \in Contents
      BY Known
    <2> QED BY <1>2, <1>3, <1>4, <2>1, <2>2, EditTyped
  <1>6. /\ disk \in DiskType' /\ op \in OpType' /\ backup \in BackupType' /\ told \in ToldType'
        /\ gen \in Optional' /\ calls \in Seq(Calls')
    <2>1. left.records <= left'.records
      BY <1>1, <1>2
    <2> QED BY <1>2, <2>1, Grows
  <1>7. disk' \in DiskType' /\ disk'.file = f /\ disk'.dirty = disk.dirty \cup {f}
        /\ disk'.stale = disk.stale /\ disk'.latest = disk.latest /\ disk'.kept = disk.kept
    BY <1>3, <1>5, <1>6 DEF DiskType
  <1>8. /\ told' \in ToldType' /\ told'.edited = TRUE /\ told'.late = (told.late \/ op.at = "rename")
        /\ told'.log = told.log /\ told'.loose = told.loose
    BY <1>4, <1>6 DEF ToldType
  <1>9. Typed'
    BY <1>2, <1>4, <1>6, <1>7, <1>8 DEF Typed
  <1>10. QueueHolds' /\ CallHolds' /\ BackupHolds'
    BY <1>4, <1>7 DEF QueueHolds, CallHolds, BackupHolds, HasPath
  <1>11. DocumentHolds'
    BY <1>4, <1>8 DEF DocumentHolds, Accepting
  <1>12. op.next \in Contents /\ op.before \in Contents
    BY Known
  <1>13. FileHolds'
    <2>1. op.at \in Appending => Len(op.before) <= Len(f)
      <3>1. Len(disk.file) \in Nat /\ Len(op.before) \in Nat
        BY <1>1, <1>12, Known, ContentTyped
      <3>2. Len(f) \in Nat
        <4>1. left'.records \in Nat
          BY <1>1, <1>2
        <4>2. f \in Seq({Torn} \cup 1 .. left'.records - 1)
          BY <1>5 DEF Contents
        <4> QED BY <4>2, LenProperties
      <3> QED BY <1>5, <3>1, <3>2 DEF FileHolds
    <2> QED BY <1>4, <1>5, <1>7, <1>8, <1>12, <2>1 DEF FileHolds, Accepting, LogsOf
  <1>14. Untouched'
    BY <1>8 DEF Untouched
  <1>15. ReplacementHolds'
    BY <1>4, <1>5, <1>7, <1>8, <1>12 DEF ReplacementHolds
  <1> QED BY <1>9, <1>10, <1>11, <1>13, <1>14, <1>15

-----------------------------------------------------------------------------
(* Backups, previews and the close                                         *)

\* A backup joins the queue of the file.
LEMMA JobStarts ==
  ASSUME StoreInv, MayStartJob, StartJob
  PROVE  /\ backup' \in BackupType /\ backup'.job = "queued"
         /\ backup'.manifest = backup.manifest /\ backup'.preview = backup.preview
         /\ backup'.token = backup.token /\ backup'.maintenance = backup.maintenance
         /\ path' \in Seq({"op", "backup", "preview"}) /\ IsInjective(path')
         /\ ToSet(path') = ToSet(path) \cup {"backup"}
         /\ HasPath("op") => HasPath("op")'
         /\ closer.at \notin {"drain", "closed"} /\ ~store.closing
  <1>1. /\ backup \in BackupType /\ path \in Seq({"op", "backup", "preview"})
        /\ IsInjective(path) /\ "backup" \notin ToSet(path)
    BY Known DEF StoreInv, QueueHolds, MayStartJob
  <1>2. /\ path' \in Seq({"op", "backup", "preview"}) /\ IsInjective(path')
        /\ ToSet(path') = ToSet(path) \cup {"backup"} /\ path' # <<>>
        /\ path # <<>> => Head(path') = Head(path)
    BY <1>1, Joins DEF StartJob
  <1>3. /\ backup' \in BackupType /\ backup'.job = "queued"
        /\ backup'.manifest = backup.manifest /\ backup'.preview = backup.preview
        /\ backup'.token = backup.token /\ backup'.maintenance = backup.maintenance
    BY <1>1 DEF StartJob, BackupType
  <1>4. closer.at \notin {"drain", "closed"} /\ ~store.closing
    BY DEF MayStartJob, Closing, StoreInv, QueueHolds
  <1> QED BY <1>2, <1>3, <1>4 DEF HasPath

\* A backup that is started waits for the file.
LEMMA JobInvariant ==
  ASSUME StoreInv, MayStartJob, StartJob, UNCHANGED <<disk, store, gen, calls, op, told>>,
         left' \in LeftType, left'.records = left.records,
         closer' \in CloserType, closer'.at \notin {"drain", "closed"}
  PROVE  StoreInv'
  <1> USE DEF StoreInv
  <1>1. /\ Contents' = Contents /\ Optional' = Optional /\ Calls' = Calls
        /\ DiskType' = DiskType /\ OpType' = OpType /\ BackupType' = BackupType
        /\ ToldType' = ToldType
    BY TypesStay
  <1>2. /\ backup' \in BackupType /\ backup'.job = "queued"
        /\ backup'.manifest = backup.manifest /\ backup'.preview = backup.preview
        /\ backup'.token = backup.token /\ backup'.maintenance = backup.maintenance
        /\ path' \in Seq({"op", "backup", "preview"}) /\ IsInjective(path')
        /\ ToSet(path') = ToSet(path) \cup {"backup"}
        /\ HasPath("op") => HasPath("op")'
    BY JobStarts
  <1>3. Typed'
    BY <1>1, <1>2 DEF Typed
  <1>4. QueueHolds'
    BY <1>2 DEF QueueHolds
  <1>5. CallHolds' /\ BackupHolds'
    BY <1>2 DEF CallHolds, BackupHolds
  <1>6. DocumentHolds' /\ FileHolds' /\ Untouched' /\ ReplacementHolds'
    BY Beside
  <1> QED BY <1>3, <1>4, <1>5, <1>6

\* A job or a preview that does not touch the path leaves what concerns the queue.
LEMMA AsideInvariant ==
  ASSUME StoreInv, UNCHANGED <<store, gen, calls, op, path, closer, told>>,
         left' \in LeftType, left'.records = left.records,
         disk' \in DiskType, disk'.file = disk.file, disk'.dirty = disk.dirty,
         disk'.stale = disk.stale, disk'.kept = disk.kept,
         backup' \in BackupType, backup'.maintenance = backup.maintenance,
         backup'.job = "queued" <=> backup.job = "queued",
         backup'.preview = "queued" <=> backup.preview = "queued",
         BackupHolds'
  PROVE  StoreInv'
  <1> USE DEF StoreInv
  <1>1. /\ Contents' = Contents /\ Optional' = Optional /\ Calls' = Calls
        /\ DiskType' = DiskType /\ OpType' = OpType /\ BackupType' = BackupType
        /\ ToldType' = ToldType
    BY TypesStay
  <1>2. Typed'
    BY <1>1 DEF Typed
  <1>3. QueueHolds'
    BY DEF QueueHolds, HasPath
  <1>4. CallHolds'
    BY DEF CallHolds
  <1>5. DocumentHolds' /\ FileHolds' /\ Untouched' /\ ReplacementHolds'
    BY Beside
  <1> QED BY <1>2, <1>3, <1>4, <1>5

\* A job or a preview that leaves the queue of the file lets the next one in.
LEMMA LeavesPath ==
  ASSUME StoreInv, NEW who \in {"backup", "preview"}, HasPath(who), path' = Tail(path),
         UNCHANGED <<disk, store, gen, calls, op, closer, told>>,
         left' \in LeftType, left'.records = left.records,
         backup' \in BackupType, backup'.maintenance = backup.maintenance,
         backup'.job = "queued" <=> backup.job = "queued" /\ who # "backup",
         backup'.preview = "queued" <=> backup.preview = "queued" /\ who # "preview",
         BackupHolds'
  PROVE  StoreInv'
  <1> USE DEF StoreInv
  <1>1. /\ Contents' = Contents /\ Optional' = Optional /\ Calls' = Calls
        /\ DiskType' = DiskType /\ OpType' = OpType /\ BackupType' = BackupType
        /\ ToldType' = ToldType
    BY TypesStay
  <1>2. /\ path' \in Seq({"op", "backup", "preview"}) /\ IsInjective(path')
        /\ ToSet(path') = ToSet(path) \ {who} /\ path # <<>> /\ Head(path) = who
    BY Known, Leaves DEF HasPath, QueueHolds
  <1>3. Typed'
    BY <1>1, <1>2 DEF Typed
  <1>4. QueueHolds'
    BY <1>2 DEF QueueHolds, HasPath
  <1>5. CallHolds'
    BY DEF CallHolds
  <1>6. DocumentHolds' /\ FileHolds' /\ Untouched' /\ ReplacementHolds'
    BY Beside
  <1> QED BY <1>3, <1>4, <1>5, <1>6

\* A backup takes its snapshot in the queue, and is written beside it.
LEMMA BackupInvariant ==
  ASSUME StoreInv, StartBackup \/ OpenSnapshot \/ FinishBackup
  PROVE  StoreInv'
  <1> USE DEF StoreInv
  <1>1. /\ left \in LeftType /\ backup \in BackupType /\ disk \in DiskType /\ disk.file \in Contents
        /\ <<>> \in Contents
    BY Known, EmptyContent
  <1>2. CASE StartBackup
    <2>1. left' \in LeftType /\ left'.records = left.records
      BY <1>1, <1>2 DEF StartBackup, LeftType
    <2>2. closer' \in CloserType /\ closer'.at \notin {"drain", "closed"}
      BY <1>2, Known, JobStarts DEF StartBackup
    <2> QED BY <1>2, <2>1, <2>2, JobInvariant DEF StartBackup
  <1>3. CASE OpenSnapshot
    <2>1. left' \in LeftType /\ left'.records = left.records
      BY <1>1, <1>3, LeftStays DEF OpenSnapshot
    <2>2. /\ backup' \in BackupType /\ backup'.maintenance = backup.maintenance
          /\ backup'.preview = backup.preview /\ backup'.manifest = backup.manifest
          /\ backup'.token = backup.token
          /\ backup'.job \in {"copying", "idle"} /\ (backup'.job = "idle" => backup'.failed)
      BY <1>1, <1>3 DEF OpenSnapshot, JobFails, BackupType
    <2>3. BackupHolds'
      BY <1>3, <2>2 DEF OpenSnapshot, BackupHolds
    <2>4. /\ HasPath("backup") /\ path' = Tail(path)
          /\ UNCHANGED <<disk, store, gen, calls, op, closer, told>>
      BY <1>3 DEF OpenSnapshot
    <2> QED BY <2>1, <2>2, <2>3, <2>4, LeavesPath
  <1>4. CASE FinishBackup
    <2>1. left' \in LeftType /\ left'.records = left.records
      BY <1>1, <1>4, LeftStays DEF FinishBackup
    <2>2. /\ backup' \in BackupType /\ backup'.maintenance = backup.maintenance
          /\ backup'.preview = backup.preview /\ backup'.token = backup.token
          /\ backup.job = "copying" /\ backup'.job = "idle"
          /\ \/ backup'.failed /\ backup'.manifest = backup.manifest /\ disk' = disk
             \/ /\ ~IsTorn(backup.snap) /\ backup'.manifest = backup.snap
                /\ disk' = [disk EXCEPT !.latest = backup.snap]
      BY <1>1, <1>4 DEF FinishBackup, JobFails, BackupType, Optional
    <2>3. backup.snap \in Contents /\ backup.snap \in Optional /\ backup.snap # NoContent
      BY Known, ContentExists DEF BackupType, Optional
    <2>4. /\ disk' \in DiskType /\ disk'.file = disk.file /\ disk'.dirty = disk.dirty
          /\ disk'.stale = disk.stale /\ disk'.kept = disk.kept
          /\ \/ backup'.failed /\ backup'.manifest = backup.manifest /\ disk'.latest = disk.latest
             \/ /\ ~IsTorn(backup.snap) /\ backup'.manifest = backup.snap
                /\ disk'.latest = backup.snap
      BY <1>1, <2>2, <2>3 DEF DiskType
    <2>5. UNCHANGED <<store, gen, calls, op, path, closer, told>>
      BY <1>4 DEF FinishBackup
    <2>6. BackupHolds'
      BY <2>2, <2>3, <2>4, <2>5 DEF BackupHolds
    <2> QED BY <2>1, <2>2, <2>4, <2>5, <2>6, AsideInvariant
  <1> QED BY <1>2, <1>3, <1>4

\* A preview reads the file in the queue and leaves a token.
LEMMA PreviewInvariant ==
  ASSUME StoreInv, StartPreview \/ QueuePreview \/ Preview
  PROVE  StoreInv'
  <1> USE DEF StoreInv
  <1>1. /\ left \in LeftType /\ backup \in BackupType /\ disk \in DiskType /\ disk.file \in Contents
        /\ NoContent \in Optional
    BY Known DEF Optional
  <1>2. CASE StartPreview
    <2>1. left' \in LeftType /\ left'.records = left.records
      BY <1>1, <1>2 DEF StartPreview, LeftType
    <2>2. /\ backup' \in BackupType /\ backup'.maintenance = backup.maintenance
          /\ backup'.job = backup.job /\ backup'.token = backup.token
          /\ backup'.manifest = backup.manifest /\ backup'.failed = backup.failed
          /\ backup'.preview = "joined" /\ backup.preview = "none"
      BY <1>1, <1>2, Known DEF StartPreview, BackupType
    <2>3. UNCHANGED <<disk, store, gen, calls, op, path, closer, told>>
      BY <1>2 DEF StartPreview
    <2>4. BackupHolds'
      BY <2>2, <2>3 DEF BackupHolds
    <2> QED BY <1>1, <2>1, <2>2, <2>3, <2>4, AsideInvariant
  <1>3. ASSUME NEW t \in {NoContent} \cup [main : Contents, from : Contents], EndPreview(t),
               t # NoContent => disk.latest # NoContent /\ ~IsTorn(t.from),
               UNCHANGED <<disk, store, gen, calls, op, closer, told, left>>,
               \/ backup.preview = "joined" /\ path' = path
               \/ backup.preview = "queued" /\ HasPath("preview") /\ path' = Tail(path)
        PROVE  StoreInv'
    <2>1. /\ backup' \in BackupType /\ backup'.maintenance = backup.maintenance
          /\ backup'.job = backup.job /\ backup'.token = t
          /\ backup'.manifest = backup.manifest /\ backup'.failed = backup.failed
          /\ backup'.preview = "none"
      BY <1>1, <1>3 DEF EndPreview, BackupType
    <2>2. BackupHolds'
      BY <1>3, <2>1 DEF BackupHolds
    <2>3. CASE backup.preview = "joined" /\ path' = path
      BY <1>1, <1>3, <2>1, <2>2, <2>3, AsideInvariant
    <2>4. CASE backup.preview = "queued" /\ HasPath("preview") /\ path' = Tail(path)
      BY <1>1, <1>3, <2>1, <2>2, <2>4, LeavesPath
    <2> QED BY <1>3, <2>3, <2>4
  <1>4. /\ backup.token \in {NoContent} \cup [main : Contents, from : Contents]
        /\ backup.token # NoContent => disk.latest # NoContent /\ ~IsTorn(backup.token.from)
    BY <1>1 DEF BackupType, BackupHolds
  <1>5. CASE QueuePreview
    <2>1. /\ UNCHANGED <<disk, store, gen, calls, op, closer, told, left>>
          /\ backup.preview = "joined"
      BY <1>5 DEF QueuePreview
    <2>2. CASE backup.manifest = NoContent \/ Closing
      BY <1>3, <1>4, <1>5, <2>1, <2>2 DEF QueuePreview
    <2>3. CASE ~(backup.manifest = NoContent \/ Closing)
      <3>1. backup' = [backup EXCEPT !.preview = "queued"] /\ path' = Append(path, "preview")
        BY <1>5, <2>3 DEF QueuePreview
      <3>2. /\ backup' \in BackupType /\ backup'.preview = "queued"
            /\ backup'.manifest = backup.manifest /\ backup'.job = backup.job
            /\ backup'.token = backup.token /\ backup'.maintenance = backup.maintenance
            /\ backup'.failed = backup.failed
        BY <1>1, <3>1 DEF BackupType
      <3>3. /\ path' \in Seq({"op", "backup", "preview"}) /\ IsInjective(path')
            /\ ToSet(path') = ToSet(path) \cup {"preview"} /\ path' # <<>>
            /\ path # <<>> => Head(path') = Head(path)
        BY <2>1, <3>1, Known, Joins DEF QueueHolds
      <3>4. /\ Contents' = Contents /\ Optional' = Optional /\ Calls' = Calls
            /\ DiskType' = DiskType /\ OpType' = OpType /\ BackupType' = BackupType
            /\ ToldType' = ToldType
        BY <2>1, TypesStay
      <3>5. Typed'
        BY <2>1, <3>2, <3>3, <3>4 DEF Typed
      <3>6. QueueHolds'
        BY <2>1, <2>3, <3>2, <3>3 DEF QueueHolds, HasPath, Closing
      <3>7. CallHolds' /\ BackupHolds'
        BY <2>1, <2>3, <3>2 DEF CallHolds, BackupHolds
      <3>8. DocumentHolds' /\ FileHolds' /\ Untouched' /\ ReplacementHolds'
        BY <2>1, Beside
      <3> QED BY <3>5, <3>6, <3>7, <3>8
    <2> QED BY <2>2, <2>3
  <1>6. CASE Preview
    <2>1. /\ UNCHANGED <<disk, store, gen, calls, op, closer, told, left>>
          /\ backup.preview = "queued" /\ HasPath("preview") /\ path' = Tail(path)
      BY <1>6 DEF Preview
    <2>2. CASE ~store.closing /\ gen = backup.revision /\ disk.file = gen
      <3> DEFINE t == [main |-> gen, from |-> backup.manifest]
      <3>1. EndPreview(t)
        BY <1>6, <2>2 DEF Preview
      <3>2. /\ backup.manifest # NoContent /\ disk.latest # NoContent /\ ~IsTorn(backup.manifest)
            /\ backup.manifest \in Contents
        BY <1>1, <2>1 DEF BackupHolds, BackupType, Optional
      <3>3. t \in [main : Contents, from : Contents] /\ t.from = backup.manifest
        BY <1>1, <2>2, <3>2
      <3> HIDE DEF t
      <3> QED BY <1>3, <2>1, <3>1, <3>2, <3>3
    <2>3. CASE ~(~store.closing /\ gen = backup.revision /\ disk.file = gen)
      BY <1>3, <1>4, <1>6, <2>1, <2>3 DEF Preview
    <2> QED BY <2>2, <2>3
  <1> QED BY <1>2, <1>5, <1>6

\* A close stops the store, and closes it once nobody uses the file.
LEMMA CloseInvariant ==
  ASSUME StoreInv, Close \/ CloseStep
  PROVE  StoreInv'
  <1> USE DEF StoreInv
  <1>1. /\ left \in LeftType /\ closer \in CloserType /\ store \in StoreType /\ Len(calls) \in Nat
    BY Known, LenProperties
  <1>2. CASE CloseFlushed /\ StartJob
    <2>1. closer' \in CloserType /\ closer'.at = "backup"
      BY <1>1, <1>2 DEF CloseFlushed, CloserType
    <2>2. /\ UNCHANGED <<disk, store, gen, calls, op, told>>
          /\ left' \in LeftType /\ left'.records = left.records
      BY <1>1, <1>2 DEF CloseFlushed
    <2>3. CASE MayStartJob
      BY <1>2, <2>1, <2>2, <2>3, JobInvariant
    <2>4. CASE UNCHANGED path
      <3>1. path = Append(path, "backup")
        BY <1>2, <2>4 DEF StartJob
      <3>2. Len(Append(path, "backup")) = Len(path) + 1 /\ Len(path) \in Nat
        BY Known, AppendProperties, LenProperties
      <3>3. Len(path) = Len(path) + 1
        BY <3>1, <3>2
      <3> QED BY <3>2, <3>3
    <2> QED BY <1>2, <2>3, <2>4 DEF CloseFlushed
  <1>3. ASSUME UNCHANGED <<disk, gen, calls, op, path, backup, told, left>>,
               closer' \in CloserType, store' \in StoreType,
               closer'.at \in {"drain", "closed"} => store'.closing,
               closer'.at = "closed" => path = <<>>,
               store'.state = store.state \/ (store'.state = "closed" /\ path = <<>>)
        PROVE  StoreInv'
    <2>1. /\ Contents' = Contents /\ Optional' = Optional /\ Calls' = Calls
          /\ DiskType' = DiskType /\ OpType' = OpType /\ BackupType' = BackupType
          /\ ToldType' = ToldType
      BY <1>3, TypesStay
    <2>2. Typed'
      BY <1>3, <2>1 DEF Typed
    <2>3. QueueHolds'
      BY <1>3 DEF QueueHolds, HasPath
    <2>4. CallHolds' /\ BackupHolds'
      BY <1>3 DEF CallHolds, BackupHolds
    <2>5. CASE store'.state = store.state
      BY <1>3, <2>2, <2>3, <2>4, <2>5, Beside
    <2>6. CASE store'.state = "closed" /\ path = <<>>
      <3>1. op.at \notin Appending \cup Replacing /\ ~Accepting'
        BY <2>6 DEF QueueHolds, HasPath, Accepting
      <3>2. DocumentHolds' /\ FileHolds' /\ Untouched' /\ ReplacementHolds'
        BY <1>3, <3>1 DEF DocumentHolds, FileHolds, Untouched, ReplacementHolds
      <3> QED BY <2>2, <2>3, <2>4, <3>2
    <2> QED BY <1>3, <2>5, <2>6
  <1>4. CASE CloseFlushed /\ UNCHANGED <<backup, path>>
    <2>1. closer' \in CloserType /\ closer'.at = "backup"
      BY <1>1, <1>4 DEF CloseFlushed, CloserType
    <2> QED BY <1>1, <1>3, <1>4, <2>1 DEF CloseFlushed
  <1>5. CASE Close
    <2>1. closer' \in CloserType /\ closer'.at = "flush"
      BY <1>1, <1>5 DEF Close, CloserType
    <2> QED BY <1>1, <1>3, <1>5, <2>1 DEF Close
  <1>6. CASE CloseStore
    <2>1. /\ closer' \in CloserType /\ closer'.at = "drain"
          /\ store' \in StoreType /\ store'.closing /\ store'.state = store.state
      BY <1>1, <1>6 DEF CloseStore, CloserType, StoreType
    <2> QED BY <1>3, <1>6, <2>1 DEF CloseStore
  <1>7. CASE CloseDrained
    <2>1. /\ closer' \in CloserType /\ closer'.at = "closed"
          /\ store' \in StoreType /\ store'.closing = store.closing /\ store'.state = "closed"
      BY <1>1, <1>7 DEF CloseDrained, State, CloserType, StoreType
    <2>2. store.closing
      BY <1>7 DEF CloseDrained, QueueHolds
    <2> QED BY <1>3, <1>7, <2>1, <2>2 DEF CloseDrained
  <1> QED BY <1>2, <1>4, <1>5, <1>6, <1>7 DEF CloseStep, CloseFlushed

-----------------------------------------------------------------------------
(* The provider: calls begin, wait for a backup, and enter the store       *)

\* A call that is given up outside the store leaves everything else as it was.
LEMMA GivenUp ==
  ASSUME StoreInv, calls # <<>>, op.at \in Outside, AnswerUnlocked, UNCHANGED <<store, gen, told>>,
         left' \in LeftType, left'.records = left.records,
         disk' \in DiskType, disk'.latest = disk.latest, disk'.file = disk.file,
         disk'.dirty = disk.dirty, disk'.stale = disk.stale
  PROVE  StoreInv'
  <1>1. Ready
    BY Settled
  <1>2. Ready'
    BY <1>1, StillReady
  <1>3. store' \in StoreType /\ store'.closing = store.closing /\ gen' \in Optional /\ told' \in ToldType
    BY Known DEF StoreInv
  <1> QED BY <1>2, <1>3, Answered

\* A call that changes its place outside the store does nothing else.
LEMMA Waits ==
  ASSUME StoreInv, calls # <<>>, op.at \in Outside, op' \in OpType,
         \/ op'.at \in {"joined", "ensure"} /\ op'.kind = "rewrite"
            /\ UNCHANGED <<backup, path>> /\ ~backup.maintenance
         \/ op'.at = "backing" /\ op'.kind = "rewrite" /\ MayStartJob /\ StartJob
            /\ ~backup.maintenance
         \/ op'.at = "hush" /\ op'.kind = "restore" /\ disk.latest # NoContent
            /\ path' = path /\ backup' \in BackupType /\ backup'.manifest = backup.manifest
            /\ backup'.job = backup.job /\ backup'.preview = backup.preview
            /\ backup'.token = NoContent,
         ~IsTorn(op'.next), UNCHANGED <<disk, store, gen, calls, closer, told, left>>
  PROVE  StoreInv'
  <1> USE DEF StoreInv
  <1>1. /\ Contents' = Contents /\ Optional' = Optional /\ Calls' = Calls
        /\ DiskType' = DiskType /\ OpType' = OpType /\ BackupType' = BackupType
        /\ ToldType' = ToldType
    BY TypesStay
  <1>2. /\ op'.at \in Outside /\ op'.at # "idle" /\ op'.kind \in {"rewrite", "restore"}
        /\ op'.at \notin Appending \cup Replacing /\ op'.at # "waiting"
    BY DEF Outside, Appending, Replacing
  <1>3. /\ backup' \in BackupType /\ path' \in Seq({"op", "backup", "preview"}) /\ IsInjective(path')
        /\ backup'.job = "queued" <=> "backup" \in ToSet(path')
        /\ backup'.preview = backup.preview /\ backup'.manifest = backup.manifest
        /\ "preview" \in ToSet(path') <=> "preview" \in ToSet(path)
        /\ "op" \in ToSet(path') <=> "op" \in ToSet(path)
        /\ closer.at = "closed" => path' = <<>>
    <2>1. CASE UNCHANGED <<backup, path>>
      BY <2>1, Known DEF QueueHolds
    <2>2. CASE MayStartJob /\ StartJob
      BY <2>2, JobStarts
    <2>3. CASE /\ path' = path /\ backup' \in BackupType /\ backup'.manifest = backup.manifest
               /\ backup'.job = backup.job /\ backup'.preview = backup.preview
      BY <2>3, Known DEF QueueHolds
    <2> QED BY <2>1, <2>2, <2>3
  <1>4. Typed'
    BY <1>1, <1>3 DEF Typed
  <1>5. QueueHolds'
    BY <1>2, <1>3 DEF QueueHolds
  <1>6. CallHolds'
    <2>1. backup'.maintenance => op'.kind = "restore"
      BY JobStarts
    <2> QED BY <1>2, <2>1 DEF CallHolds
  <1>7. BackupHolds'
    <2>1. op'.at = "backing" => backup'.job = "queued"
      BY JobStarts
    <2>2. backup'.token # NoContent => backup'.token = backup.token
      BY JobStarts
    <2> QED BY <1>2, <1>3, <2>1, <2>2 DEF BackupHolds
  <1>8. Ready
    BY Settled
  <1>9. DocumentHolds' /\ FileHolds' /\ Untouched' /\ ReplacementHolds'
    BY <1>2, <1>8 DEF Ready, DocumentHolds, FileHolds, Untouched, ReplacementHolds,
       Accepting, LogsOf
  <1> QED BY <1>4, <1>5, <1>6, <1>7, <1>9

\* A call enters the queue of the file with what it is to write.
LEMMA Enters ==
  ASSUME StoreInv, calls # <<>>, op.at \in Outside, NEW o \in OpType, EnterStore(o),
         op.kind = "none" \/ o.kind = op.kind,
         \/ o.kind = "append" /\ IsStrictPrefix(gen, o.next)
         \/ o.kind \in {"rewrite", "restore"} /\ disk.latest # NoContent,
         ~IsTorn(o.next), o.kind = "restore" => disk'.kept = o.before \/ disk.file # o.before,
         UNCHANGED <<store, gen, told>>,
         left' \in LeftType, left'.records = left.records,
         disk' \in DiskType, disk'.latest = disk.latest, disk'.file = disk.file,
         disk'.dirty = disk.dirty, disk'.stale = disk.stale
  PROVE  StoreInv'
  <1> USE DEF StoreInv
  <1>1. CASE IF o.kind = "restore" THEN Closing ELSE Blocked
    BY <1>1, GivenUp DEF EnterStore
  <1>2. CASE ~(IF o.kind = "restore" THEN Closing ELSE Blocked)
    <2>1. /\ op' = [o EXCEPT !.at = "waiting"] /\ path' = Append(path, "op")
          /\ UNCHANGED <<calls, closer, backup>>
      BY <1>2 DEF EnterStore
    <2>2. /\ op' \in OpType /\ op'.at = "waiting" /\ op'.kind = o.kind /\ op'.next = o.next
          /\ op'.before = o.before
      BY <2>1 DEF OpType
    <2>3. /\ op'.at \notin Outside \cup Appending \cup Replacing
      BY <2>2 DEF Outside, Appending, Replacing
    <2>4. /\ path' \in Seq({"op", "backup", "preview"}) /\ IsInjective(path')
          /\ ToSet(path') = ToSet(path) \cup {"op"}
      BY <2>1, Known, Joins DEF QueueHolds
    <2>5. closer.at \notin {"drain", "closed"}
      BY <1>2 DEF Closing, Blocked, QueueHolds
    <2>6. /\ Contents' = Contents /\ Optional' = Optional /\ Calls' = Calls
          /\ DiskType' = DiskType /\ OpType' = OpType /\ BackupType' = BackupType
          /\ ToldType' = ToldType
      BY TypesStay
    <2>7. Typed'
      BY <2>1, <2>2, <2>4, <2>6 DEF Typed
    <2>8. QueueHolds'
      BY <2>1, <2>2, <2>3, <2>4, <2>5 DEF QueueHolds
    <2>9. CallHolds'
      BY <2>1, <2>2, <2>3 DEF CallHolds
    <2>10. BackupHolds'
      BY <2>1, <2>2 DEF BackupHolds
    <2>11. Ready
      BY Settled
    <2>12. DocumentHolds' /\ FileHolds' /\ Untouched' /\ ReplacementHolds'
      BY <2>2, <2>3, <2>11 DEF Ready, DocumentHolds, FileHolds, Untouched, ReplacementHolds,
         Accepting, LogsOf
    <2> QED BY <2>7, <2>8, <2>9, <2>10, <2>12
  <1> QED BY <1>1, <1>2

\* A mutation is prepared from the document, or turned away.
LEMMA MutationInvariant ==
  ASSUME StoreInv, BeginMutation
  PROVE  StoreInv'
  <1> USE DEF StoreInv
  <1> DEFINE c == Head(calls)
             o == [NoOp EXCEPT !.kind = c.kind, !.next = Prepared(c)]
  <1>1. /\ op.at = "idle" /\ calls # <<>> /\ c.kind \in {"append", "rewrite"}
        /\ UNCHANGED <<disk, store, gen, told, left>>
    BY DEF BeginMutation
  <1>2. /\ op.at \in Outside /\ op.kind = "none" /\ backup.maintenance = FALSE
        /\ disk \in DiskType /\ left \in LeftType
    BY <1>1, Known DEF Outside, CallHolds, BackupType
  <1>3. c \in Calls /\ (c.kind = "append" => c.recs # <<>>)
    <2>1. c \in Calls /\ c = calls[1]
      BY <1>1, Known, HeadTailProperties
    <2>2. 1 \in DOMAIN calls
      BY <1>1, Known, EmptySeq, LenProperties
    <2> QED BY <2>1, <2>2 DEF CallHolds
  <1>4. CASE ~Writable \/ (c.kind = "rewrite" /\ c.old \notin ToSet(gen))
    <2>1. AnswerUnlocked
      BY <1>4 DEF BeginMutation
    <2> QED BY <1>1, <1>2, <2>1, GivenUp
  <1>5. CASE ~(~Writable \/ (c.kind = "rewrite" /\ c.old \notin ToSet(gen)))
    <2>1. /\ IF c.kind = "append" THEN EnterStore(o)
             ELSE /\ op' = [o EXCEPT !.at = IF backup.job = "idle" THEN "ensure" ELSE "joined"]
                  /\ UNCHANGED <<calls, path, backup, closer>>
      BY <1>5 DEF BeginMutation
    <2>2. Accepting /\ gen # NoContent
      BY <1>1, <1>2, <1>5, Known DEF Writable, Health, Accepting, StoreType
    <2>3. gen \in Contents /\ ~IsTorn(gen)
      BY <2>2, Known DEF DocumentHolds
    <2>4. /\ Prepared(c) \in Contents /\ ~IsTorn(Prepared(c))
          /\ c.kind = "append" /\ c.recs # <<>> => IsStrictPrefix(gen, Prepared(c))
      BY <1>1, <1>3, <1>5, <2>3, Known, PreparedTyped
    <2>5. /\ o \in OpType /\ o.kind = c.kind /\ o.next = Prepared(c)
      BY <1>1, <2>4, Known, Fresh DEF OpType
    <2> HIDE DEF o, c
    <2>6. CASE c.kind = "append"
      BY <1>1, <1>2, <1>3, <2>1, <2>4, <2>5, <2>6, Enters
    <2>7. CASE c.kind # "append"
      <3>1. /\ op' \in OpType /\ op'.at \in {"joined", "ensure"} /\ op'.kind = "rewrite"
            /\ op'.next = Prepared(c)
        BY <1>1, <2>1, <2>5, <2>7 DEF OpType, Outside
      <3> QED BY <1>1, <1>2, <2>1, <2>4, <2>7, <3>1, Waits
    <2> QED BY <2>6, <2>7
  <1> QED BY <1>4, <1>5

\* A rewrite goes on only with a backup in place.
LEMMA EnsureInvariant ==
  ASSUME StoreInv, EnsureBackup
  PROVE  StoreInv'
  <1> USE DEF StoreInv
  <1>1. /\ op.at \in {"joined", "ensure", "backing"} /\ op.at \in Outside /\ op.kind = "rewrite"
        /\ backup.job = "idle" /\ calls # <<>> /\ ~backup.maintenance /\ ~IsTorn(op.next)
        /\ op \in OpType /\ disk \in DiskType /\ left \in LeftType
        /\ UNCHANGED <<disk, store, gen, told, left>>
    BY Known DEF EnsureBackup, Outside, CallHolds, DocumentHolds
  <1>2. CASE AnswerUnlocked
    BY <1>1, <1>2, GivenUp
  <1>3. CASE EnterStore(op) /\ disk.latest # NoContent
    BY <1>1, <1>3, Enters
  <1>4. CASE op' = [op EXCEPT !.at = "ensure"] /\ UNCHANGED <<calls, path, backup, closer>>
    <2>1. op' \in OpType /\ op'.at = "ensure" /\ op'.kind = "rewrite" /\ op'.next = op.next
      BY <1>1, <1>4 DEF OpType, Outside
    <2> QED BY <1>1, <1>4, <2>1, Waits
  <1>5. CASE /\ MayStartJob /\ StartJob /\ op' = [op EXCEPT !.at = "backing"]
             /\ UNCHANGED <<calls, closer>>
    <2>1. op' \in OpType /\ op'.at = "backing" /\ op'.kind = "rewrite" /\ op'.next = op.next
      BY <1>1, <1>5 DEF OpType, Outside
    <2> QED BY <1>1, <1>5, <2>1, Waits
  <1>6. op.at = "backing" /\ ~backup.failed => disk.latest # NoContent
    BY <1>1 DEF BackupHolds
  <1> QED BY <1>1, <1>2, <1>3, <1>4, <1>5, <1>6 DEF EnsureBackup

\* A restore takes its token, and keeps the log that is to go.
LEMMA RestoreInvariant ==
  ASSUME StoreInv, BeginRestore \/ KeepMain
  PROVE  StoreInv'
  <1> USE DEF StoreInv
  <1>1. /\ op \in OpType /\ disk \in DiskType /\ left \in LeftType /\ backup \in BackupType
        /\ disk.file \in Contents /\ gen \in Optional
    BY Known
  <1>2. CASE BeginRestore
    <2> DEFINE t == backup.token
    <2>1. /\ op.at = "idle" /\ op.at \in Outside /\ calls # <<>>
          /\ UNCHANGED <<disk, store, gen, told, left>>
      BY <1>2 DEF BeginRestore, Outside
    <2>2. CASE AnswerUnlocked
      BY <1>1, <2>1, <2>2, GivenUp
    <2>3. CASE /\ t # NoContent
               /\ op' = [NoOp EXCEPT !.at = "hush", !.kind = "restore",
                                     !.before = t.main, !.next = t.from]
               /\ backup' = [backup EXCEPT !.token = NoContent, !.maintenance = TRUE]
               /\ UNCHANGED <<calls, path, closer>>
      <3>1. t.main \in Contents /\ t.from \in Contents /\ ~IsTorn(t.from) /\ disk.latest # NoContent
        BY <1>1, <2>3 DEF BackupType, BackupHolds
      <3>2. /\ op' \in OpType /\ op'.at = "hush" /\ op'.kind = "restore" /\ op'.next = t.from
        BY <2>3, <3>1, Known, Fresh DEF OpType, Outside
      <3>3. /\ backup' \in BackupType /\ backup'.manifest = backup.manifest
            /\ backup'.job = backup.job /\ backup'.preview = backup.preview
            /\ backup'.token = NoContent
        BY <1>1, <2>3 DEF BackupType
      <3> QED BY <2>1, <2>3, <3>1, <3>2, <3>3, Waits
    <2> QED BY <1>2, <2>2, <2>3 DEF BeginRestore
  <1>3. CASE KeepMain
    <2>1. /\ op.at = "hush" /\ op.at \in Outside /\ op.kind = "restore" /\ calls # <<>>
          /\ disk.latest # NoContent /\ ~IsTorn(op.next) /\ UNCHANGED <<store, gen, told>>
      BY <1>3 DEF KeepMain, Outside, CallHolds, BackupHolds, DocumentHolds
    <2>2. left' \in LeftType /\ left'.records = left.records
      BY <1>1, <1>3, LeftStays DEF KeepMain
    <2>3. CASE AnswerUnlocked /\ UNCHANGED disk
      BY <1>1, <2>1, <2>2, <2>3, GivenUp
    <2>4. CASE EnterStore(op) /\ disk' = [disk EXCEPT !.kept = disk.file]
      <3>1. /\ disk' \in DiskType /\ disk'.latest = disk.latest /\ disk'.file = disk.file
            /\ disk'.dirty = disk.dirty /\ disk'.stale = disk.stale /\ disk'.kept = disk.file
        BY <1>1, <2>4 DEF DiskType, Optional
      <3> QED BY <1>1, <2>1, <2>2, <2>4, <3>1, Enters
    <2> QED BY <1>3, <2>3, <2>4 DEF KeepMain
  <1> QED BY <1>2, <1>3

-----------------------------------------------------------------------------
(* Opening the file                                                        *)

\* A reopen waits for the file, or finds the log closed.
LEMMA ReopenInvariant ==
  ASSUME StoreInv, BeginReopen
  PROVE  StoreInv'
  <1> USE DEF StoreInv
  <1>1. /\ op.at = "idle" /\ op.at \in Outside /\ op.kind = "none" /\ calls # <<>>
        /\ ~backup.maintenance /\ UNCHANGED <<disk, told, left>>
    BY DEF BeginReopen, Outside, CallHolds
  <1>2. /\ disk \in DiskType /\ store \in StoreType /\ told \in ToldType /\ left \in LeftType
        /\ NoContent \in Optional
    BY Known DEF Optional
  <1>3. CASE /\ ~Closing /\ op' = [NoOp EXCEPT !.at = "waiting", !.kind = "reopen"]
             /\ path' = Append(path, "op")
             /\ UNCHANGED <<store, gen, calls, backup, closer>>
    <2>1. op' \in OpType /\ op'.at = "waiting" /\ op'.kind = "reopen"
      BY <1>3, Known, Fresh DEF OpType
    <2>2. op'.at \notin Outside \cup Appending \cup Replacing
      BY <2>1 DEF Outside, Appending, Replacing
    <2>3. /\ path' \in Seq({"op", "backup", "preview"}) /\ IsInjective(path')
          /\ ToSet(path') = ToSet(path) \cup {"op"}
      BY <1>1, <1>3, Known, Joins DEF QueueHolds
    <2>4. /\ Contents' = Contents /\ Optional' = Optional /\ Calls' = Calls
          /\ DiskType' = DiskType /\ OpType' = OpType /\ BackupType' = BackupType
          /\ ToldType' = ToldType
      BY <1>1, TypesStay
    <2>5. Typed'
      BY <1>1, <1>3, <2>1, <2>3, <2>4 DEF Typed
    <2>6. QueueHolds'
      BY <1>3, <2>2, <2>3 DEF QueueHolds, Closing
    <2>7. CallHolds'
      BY <1>1, <1>3, <2>1, <2>2 DEF CallHolds
    <2>8. BackupHolds'
      BY <1>1, <1>3, <2>1, <2>2 DEF BackupHolds
    <2>9. Ready
      BY <1>1, Settled
    <2>10. DocumentHolds' /\ FileHolds' /\ Untouched' /\ ReplacementHolds'
      BY <1>1, <1>3, <2>1, <2>2, <2>9 DEF Ready, DocumentHolds, FileHolds, Untouched,
         ReplacementHolds, Accepting, LogsOf
    <2> QED BY <2>5, <2>6, <2>7, <2>8, <2>10
  <1>4. CASE State("closed") /\ gen' = NoContent /\ AnswerUnlocked
    <2>1. store' \in StoreType /\ store'.closing = store.closing /\ ~Accepting'
      BY <1>2, <1>4 DEF State, StoreType, Accepting
    <2>2. Ready'
      BY <1>1, <2>1, Refused
    <2> QED BY <1>1, <1>2, <1>4, <2>1, <2>2, Answered
  <1> QED BY <1>3, <1>4 DEF BeginReopen

\* What the clients are shown is what the file holds.
LEMMA ShownTyped ==
  ASSUME Typed, NEW others \in SUBSET Contents, told' = Shown(others)
  PROVE  /\ told' \in ToldType /\ told'.log = Complete(disk.file) /\ told'.loose = LogsOf(others)
         /\ told'.edited = FALSE /\ told'.late = FALSE /\ ~IsTorn(told'.log)
  <1>1. disk.file \in Contents /\ left.records \in 1 .. MaxRecords + 1
    BY Known
  <1>2. \A c \in Contents : Complete(c) \in Contents /\ ~IsTorn(Complete(c))
    BY <1>1, WholeContent
  <1>3. LogsOf(others) \subseteq Contents
    BY <1>2 DEF LogsOf
  <1> QED BY <1>1, <1>2, <1>3 DEF Shown, ToldType, LogsOf

\* What is read from the file is the document and what the clients are shown.
LEMMA OpenInvariant ==
  ASSUME StoreInv, Open
  PROVE  StoreInv'
  <1> USE DEF StoreInv
  <1>1. /\ HasPath("op") /\ op.at = "waiting" /\ op.kind = "reopen" /\ op.at # "idle" /\ calls # <<>>
        /\ path' = Tail(path) /\ calls' = Tail(calls) /\ op' = NoOp /\ disk' = disk
        /\ ~backup.maintenance
    BY DEF Open, OpHolds, CallHolds
  <1>2. /\ disk \in DiskType /\ store \in StoreType /\ told \in ToldType /\ left \in LeftType
        /\ NoContent \in Optional /\ disk.file \in Contents /\ disk.latest \in Optional
        /\ backup \in BackupType /\ closer \in CloserType /\ left.records \in 1 .. MaxRecords + 1
    BY Known DEF Optional
  <1>3. left' \in LeftType /\ left'.records = left.records
    BY <1>2, LeftStays DEF Open
  <1>4. /\ Contents' = Contents /\ Optional' = Optional /\ Calls' = Calls
        /\ DiskType' = DiskType /\ OpType' = OpType /\ BackupType' = BackupType
        /\ ToldType' = ToldType
    BY <1>3, TypesStay
  <1>5. op' \in OpType /\ op'.at = "idle" /\ op'.kind = "none"
    BY <1>1, Known, Fresh
  <1>6. /\ backup' \in BackupType /\ backup'.maintenance = FALSE
        /\ backup'.job = backup.job /\ backup'.preview = backup.preview
        /\ backup'.manifest = (IF backup.manifest = NoContent THEN disk.latest ELSE backup.manifest)
        /\ backup'.token = backup.token /\ backup'.failed = backup.failed
    BY <1>1, <1>2 DEF Open, BackupType
  <1>7. closer' \in CloserType /\ closer'.at = closer.at
    BY <1>2 DEF Open, CloserType
  <1>8. calls' \in Seq(Calls) /\ \A i \in DOMAIN calls' : calls'[i].kind = "append" => calls'[i].recs # <<>>
    <2>1. /\ calls' \in Seq(Calls) /\ Len(calls') = Len(calls) - 1
          /\ \A i \in 1 .. Len(calls') : calls'[i] = calls[i + 1]
      BY <1>1, Known, HeadTailProperties
    <2>2. Len(calls) \in Nat /\ DOMAIN calls = 1 .. Len(calls) /\ DOMAIN calls' = 1 .. Len(calls')
      BY <2>1, Known, LenProperties
    <2>3. \A i \in DOMAIN calls' : i + 1 \in DOMAIN calls /\ calls'[i] = calls[i + 1]
      BY <2>1, <2>2
    <2> QED BY <2>1, <2>3 DEF CallHolds
  <1>9. /\ path' \in Seq({"op", "backup", "preview"}) /\ IsInjective(path')
        /\ ToSet(path') = ToSet(path) \ {"op"} /\ path # <<>>
    BY <1>1, Known, Leaves DEF HasPath, QueueHolds
  <1>10. /\ store' \in StoreType /\ store'.closing = store.closing /\ gen' \in Optional
         /\ told' \in ToldType /\ ~IsTorn(told'.log)
         /\ \/ gen' = NoContent /\ ~Accepting'
            \/ /\ gen' = disk.file /\ (Accepting' => ~IsTorn(disk.file)) /\ ~told'.edited
               /\ told'.log = Complete(disk.file)
               /\ told'.loose = LogsOf((disk.dirty \ {disk.file}) \cup disk.stale)
    <2>1. CASE /\ State(ScannedState) /\ gen' = disk.file
               /\ told' = Shown((disk.dirty \ {disk.file}) \cup disk.stale)
      <3>1. (disk.dirty \ {disk.file}) \cup disk.stale \in SUBSET Contents
        BY Known
      <3>2. /\ store' \in StoreType /\ store'.closing = store.closing
            /\ Accepting' => ~IsTorn(disk.file)
        BY <1>2, <2>1 DEF State, ScannedState, StoreType, Accepting
      <3> QED BY <1>2, <2>1, <3>1, <3>2, ShownTyped DEF Optional
    <2>2. CASE State("unavailable") /\ gen' = NoContent /\ UNCHANGED told
      BY <1>2, <2>2 DEF State, StoreType, Accepting, DocumentHolds
    <2> QED BY <2>1, <2>2 DEF Open
  <1>11. Typed'
    BY <1>1, <1>2, <1>3, <1>4, <1>5, <1>6, <1>7, <1>8, <1>9, <1>10 DEF Typed
  <1>12. QueueHolds'
    BY <1>5, <1>6, <1>7, <1>9, <1>10 DEF QueueHolds, Outside, Appending, Replacing
  <1>13. CallHolds'
    BY <1>5, <1>6, <1>8 DEF CallHolds, Appending, Replacing
  <1>14. BackupHolds'
    BY <1>1, <1>5, <1>6 DEF BackupHolds
  <1>15. Ready'
    <2>1. CASE gen' = NoContent /\ ~Accepting'
      BY <1>1, <1>10, <2>1 DEF Ready, FileHolds
    <2>2. CASE /\ gen' = disk.file /\ (Accepting' => ~IsTorn(disk.file)) /\ ~told'.edited
               /\ told'.log = Complete(disk.file)
               /\ told'.loose = LogsOf((disk.dirty \ {disk.file}) \cup disk.stale)
      <3>1. ~IsTorn(disk.file) => Complete(disk.file) = disk.file
        BY DEF Complete
      <3>2. LogsOf(disk.stale) \subseteq told'.loose
        BY <2>2 DEF LogsOf
      <3>3. ~IsTorn(disk.file) => LogsOf(disk.dirty) \subseteq {disk.file} \cup told'.loose
        BY <2>2, <3>1 DEF LogsOf
      <3>4. LogsOf(disk.stale)' = LogsOf(disk.stale) /\ LogsOf(disk.dirty)' = LogsOf(disk.dirty)
        BY <1>1 DEF LogsOf
      <3> QED BY <1>1, <1>10, <2>2, <3>1, <3>2, <3>3, <3>4 DEF Ready, FileHolds
    <2> QED BY <1>10, <2>1, <2>2
  <1>16. DocumentHolds' /\ FileHolds' /\ Untouched' /\ ReplacementHolds'
    BY <1>5, <1>15 DEF Ready, DocumentHolds, FileHolds, Untouched, ReplacementHolds,
       Appending, Replacing
  <1> QED BY <1>11, <1>12, <1>13, <1>14, <1>16

-----------------------------------------------------------------------------
(* Appending                                                               *)

\* A call in the store that fails and leaves the file, the document and the clients alone.
LEMMA GivesUp ==
  ASSUME StoreInv, HasPath("op"), AnswerLocked, calls # <<>>,
         left' \in LeftType, left'.records = left.records, UNCHANGED <<disk, gen, told>>,
         store' \in StoreType, store'.closing = store.closing,
         \/ ~Accepting'
         \/ store' = store
            /\ op.at \in {"waiting", "write", "temp", "tempSync", "recheck", "rename"}
  PROVE  StoreInv'
  <1>1. Ready'
    <2>1. CASE ~Accepting'
      BY <2>1, Refused
    <2>2. CASE store' = store /\ op.at \in {"waiting", "write", "temp", "tempSync", "recheck", "rename"}
      BY <2>2, Settled, StillReady
    <2> QED BY <2>1, <2>2
  <1>2. disk' \in DiskType /\ disk'.latest = disk.latest /\ gen' \in Optional /\ told' \in ToldType
    BY Known DEF StoreInv
  <1> QED BY <1>1, <1>2, Answered

\* A state of the store that accepts no mutation.
LEMMA Stops ==
  ASSUME StoreInv, NEW s \in {"read-only", "unavailable", "uncertain", "closed"}, State(s)
  PROVE  store' \in StoreType /\ store'.closing = store.closing /\ ~Accepting'
  BY Known DEF StoreInv, State, StoreType, Accepting

\* The place of the running call changes, and nothing else of it.
LEMMA Goes ==
  ASSUME StoreInv, NEW at \in Appending \cup Replacing, Goto(at)
  PROVE  /\ op' \in OpType /\ op'.at = at /\ op'.kind = op.kind /\ op'.before = op.before
         /\ op'.next = op.next /\ op'.temp = op.temp /\ op'.confirmed = op.confirmed
         /\ UNCHANGED <<calls, path, backup, closer>>
  BY Known DEF StoreInv, Goto, OpType

\* A mutation goes on only if the file is the document it was prepared from.
LEMMA BaselineInvariant ==
  ASSUME StoreInv, Baseline
  PROVE  StoreInv'
  <1> USE DEF StoreInv
  <1>1. /\ HasPath("op") /\ op.at = "waiting" /\ op.kind \in {"append", "rewrite"} /\ calls # <<>>
        /\ op.at \notin Outside /\ UNCHANGED <<disk, gen, told>>
    BY DEF Baseline, OpHolds, CallHolds, Outside
  <1>2. /\ left \in LeftType /\ store \in StoreType /\ op \in OpType /\ disk \in DiskType
        /\ gen \in Optional /\ told \in ToldType
    BY Known
  <1>3. left' \in LeftType /\ left'.records = left.records
    BY <1>2, LeftStays DEF Baseline
  <1>4. CASE AnswerLocked /\ (UNCHANGED store \/ State("read-only"))
    BY <1>1, <1>2, <1>3, <1>4, Stops, GivesUp
  <1>5. CASE /\ ~Blocked /\ disk.file = gen /\ ~IsTorn(gen)
             /\ op' = [op EXCEPT !.before = gen, !.at = IF op.kind = "append" THEN "write" ELSE "temp"]
             /\ UNCHANGED <<store, calls, path, backup, closer>>
    <2>1. Accepting /\ gen \in Contents
      BY <1>2, <1>5, Known DEF Blocked, Accepting, StoreType
    <2>2. /\ op' \in OpType /\ op'.kind = op.kind /\ op'.before = gen /\ op'.next = op.next
          /\ op'.at = IF op.kind = "append" THEN "write" ELSE "temp"
      BY <1>2, <1>5, <2>1 DEF OpType, Appending, Replacing
    <2>3. Ready
      BY <1>1, Settled
    <2>4. /\ \/ op.kind = "append" /\ op'.at \in Appending
             \/ op.kind \in {"rewrite", "restore"} /\ op'.at \in Replacing
      BY <1>1, <2>2 DEF Appending, Replacing
    <2>5. DocumentHolds'
      BY <1>1, <1>5, <2>1, <2>2 DEF DocumentHolds, Accepting, Appending, Replacing
    <2>6. FileHolds'
      <3>1. Len(gen) <= Len(disk.file)
        BY <1>5, <2>1, Known, ContentTyped
      <3> QED BY <1>1, <1>5, <2>1, <2>2, <2>3, <3>1 DEF Ready, FileHolds, Accepting, LogsOf
    <2>7. Untouched'
      BY <1>1, <1>5, <2>1, <2>2, <2>3 DEF Ready, Untouched, Accepting, LogsOf, Appending
    <2>8. ReplacementHolds'
      BY <1>1, <2>2 DEF ReplacementHolds
    <2> QED BY <1>1, <1>2, <1>3, <1>5, <2>2, <2>4, <2>5, <2>6, <2>7, <2>8, Proceeds
  <1> QED BY <1>4, <1>5 DEF Baseline

\* What a running append is known to hold.
LEMMA Appends ==
  ASSUME StoreInv, op.at \in Appending
  PROVE  LET rest == SubSeq(op.next, Len(op.before) + 1, Len(op.next))
         IN  /\ HasPath("op") /\ op.at \notin Outside /\ op.kind = "append" /\ calls # <<>>
             /\ Accepting /\ op.before = gen /\ gen = told.log /\ gen \in Contents /\ ~IsTorn(gen)
             /\ Complete(gen) = gen
             /\ op.next \in Contents /\ ~IsTorn(op.next) /\ Complete(op.next) = op.next
             /\ IsStrictPrefix(gen, op.next) /\ gen # op.next
             /\ SubSeq(op.next, 1, Len(gen)) = gen
             /\ rest \in Seq(1 .. left.records - 1) /\ gen \o rest = op.next
             /\ Len(gen) \in Nat /\ Len(disk.file) \in Nat /\ Len(gen) <= Len(disk.file)
             /\ disk.file \in Contents
  <1> USE DEF StoreInv
  <1>1. /\ HasPath("op") /\ op.at \notin Outside /\ op.kind = "append" /\ calls # <<>>
        /\ Accepting /\ op.before = gen /\ gen = told.log /\ gen \in Contents /\ ~IsTorn(gen)
        /\ op.next \in Contents /\ ~IsTorn(op.next) /\ IsStrictPrefix(gen, op.next)
        /\ Len(gen) <= Len(disk.file) /\ disk.file \in Contents
        /\ left.records \in 1 .. MaxRecords + 1 /\ left.records \in Nat
    BY Known DEF QueueHolds, CallHolds, DocumentHolds, FileHolds, Outside, Appending
  <1>2. Complete(gen) = gen /\ Complete(op.next) = op.next /\ gen # op.next
    BY <1>1 DEF Complete, IsStrictPrefix
  <1>3. Len(gen) \in Nat /\ Len(disk.file) \in Nat
    BY <1>1, ContentTyped
  <1>4. LET rest == SubSeq(op.next, Len(gen) + 1, Len(op.next))
        IN  /\ SubSeq(op.next, 1, Len(gen)) = gen
            /\ rest \in Seq(1 .. left.records - 1) /\ gen \o rest = op.next
    BY <1>1, AddedTyped
  <1> QED BY <1>1, <1>2, <1>3, <1>4

\* A step of an append that goes on.
LEMMA AppendGoes ==
  ASSUME StoreInv, op.at \in Appending, NEW at \in Appending \ {"write"}, Goto(at),
         left' \in LeftType, left'.records = left.records,
         disk' \in DiskType, disk'.latest = disk.latest, disk'.kept = disk.kept,
         disk'.stale = disk.stale, disk'.file \in disk'.dirty, UNCHANGED <<store, gen, told>>,
         Len(gen) <= Len(disk'.file),
         at = "verify" /\ disk'.file = op.next => disk'.dirty = {op.next},
         ~told.edited =>
           /\ at = "sync" => disk'.file = op.next
           /\ at \in {"failed", "truncate"} => SubSeq(disk'.file, 1, Len(gen)) = gen
           /\ at = "failed" /\ disk'.file = gen
                => LogsOf(disk'.dirty) \subseteq {gen} \cup told.loose
           /\ at = "restoreSync" => disk'.file = gen
  PROVE  StoreInv'
  <1> USE DEF StoreInv
  <1>1. /\ HasPath("op") /\ op.at \notin Outside /\ op.kind = "append" /\ op.before = gen
        /\ Accepting /\ IsStrictPrefix(gen, op.next)
    BY Appends
  <1>2. /\ op' \in OpType /\ op'.at = at /\ op'.kind = op.kind /\ op'.before = op.before
        /\ op'.next = op.next /\ op'.temp = op.temp /\ op'.confirmed = op.confirmed
        /\ UNCHANGED <<calls, path, backup, closer>>
    BY Goes
  <1>3. at \notin {"write", "waiting", "dirSync", "renamed", "recheck", "rename", "temp", "tempSync"}
        /\ at \notin Outside \cup Replacing
    BY DEF Appending, Outside, Replacing
  <1>4. DocumentHolds'
    BY <1>1, <1>2, <1>3 DEF DocumentHolds, Accepting
  <1>5. FileHolds'
    BY <1>1, <1>2, <1>3 DEF FileHolds, Accepting, LogsOf, Appending
  <1>6. Untouched'
    BY <1>1, <1>2, <1>3 DEF Untouched, Accepting, LogsOf, Appending
  <1>7. ReplacementHolds'
    BY <1>1, <1>2, <1>3 DEF ReplacementHolds
  <1>8. store' \in StoreType /\ store'.closing = store.closing /\ gen' \in Optional /\ told' \in ToldType
    BY Known
  <1> QED BY <1>1, <1>2, <1>4, <1>5, <1>6, <1>7, <1>8, Proceeds

\* The records go behind the document, all of them or some.
LEMMA AppendWriteInvariant ==
  ASSUME StoreInv, AppendWrite
  PROVE  StoreInv'
  <1> DEFINE recs == SubSeq(op.next, Len(op.before) + 1, Len(op.next))
             pieces == Pieces(disk.file, recs)
  <1> USE DEF StoreInv
  <1>1. op.at = "write" /\ op.at \in Appending /\ UNCHANGED <<store, gen, told>>
    BY DEF AppendWrite, OpHolds, Appending
  <1>2. /\ HasPath("op") /\ calls # <<>> /\ op.before = gen /\ Complete(gen) = gen
        /\ recs \in Seq(1 .. left.records - 1) /\ gen \o recs = op.next
        /\ Len(gen) \in Nat /\ Len(disk.file) \in Nat /\ Len(gen) <= Len(disk.file)
    BY <1>1, Appends
  <1>3. /\ left.records \in 1 .. MaxRecords + 1 /\ left.records \in Nat /\ left \in LeftType
        /\ disk \in DiskType /\ disk.file \in Contents /\ store \in StoreType
        /\ ~IsTorn(disk.file) /\ disk.file \in disk.dirty
    BY <1>1, Known DEF FileHolds
  <1>4. left' \in LeftType /\ left'.records = left.records
    BY <1>3, LeftStays DEF AppendWrite
  <1> HIDE DEF recs
  <1>5. /\ disk.file \in pieces /\ disk.file \o recs \in pieces
        /\ \A p \in pieces : /\ p \in Contents /\ Len(p) >= Len(disk.file)
                             /\ SubSeq(p, 1, Len(disk.file)) = disk.file
                             /\ Len(p) = Len(disk.file) => p = disk.file
    BY <1>2, <1>3, PiecesTyped
  <1>6. \A p \in pieces : Len(p) \in Nat
    BY <1>3, <1>5, ContentTyped
  <1>7. ~told.edited => disk.file = gen /\ LogsOf(disk.dirty) \subseteq {gen} \cup told.loose
    <2>1. Ready
      BY <1>1, Settled
    <2> QED BY <1>1, <2>1, Appends DEF Ready
  <1> HIDE DEF pieces
  <1>8. CASE /\ disk' = [disk EXCEPT !.file = @ \o recs, !.dirty = @ \cup pieces]
             /\ Goto("sync")
    <2>1. /\ disk' \in DiskType /\ disk'.latest = disk.latest /\ disk'.kept = disk.kept
          /\ disk'.stale = disk.stale /\ disk'.file = disk.file \o recs
          /\ disk'.dirty = disk.dirty \cup pieces
      BY <1>3, <1>5, <1>8 DEF DiskType
    <2>2. Len(gen) <= Len(disk'.file)
      <3>1. Len(disk'.file) >= Len(disk.file) /\ Len(disk'.file) \in Nat
        BY <1>5, <1>6, <2>1
      <3> QED BY <1>2, <3>1
    <2>3. ~told.edited => disk'.file = op.next
      BY <1>2, <1>7, <2>1
    <2>4. "sync" \in Appending \ {"write"} /\ "sync" \notin {"verify", "failed", "truncate", "restoreSync"}
          /\ disk'.file \in disk'.dirty
      BY <1>5, <2>1 DEF Appending
    <2> QED BY <1>1, <1>4, <1>8, <2>1, <2>2, <2>3, <2>4, AppendGoes
  <1>9. ASSUME NEW f \in pieces, Goto("failed"),
               disk' = [disk EXCEPT !.file = f, !.dirty = @ \cup {p \in pieces : Len(p) <= Len(f)}]
        PROVE  StoreInv'
    <2>1. /\ disk' \in DiskType /\ disk'.latest = disk.latest /\ disk'.kept = disk.kept
          /\ disk'.stale = disk.stale /\ disk'.file = f
          /\ disk'.dirty = disk.dirty \cup {p \in pieces : Len(p) <= Len(f)}
      BY <1>3, <1>5, <1>9 DEF DiskType
    <2>2. Len(gen) <= Len(disk'.file)
      BY <1>2, <1>5, <1>6, <2>1
    <2>3. f \in disk'.dirty
      BY <1>6, <2>1
    <2>4. ~told.edited => SubSeq(disk'.file, 1, Len(gen)) = gen
      BY <1>5, <1>7, <2>1
    <2>5. ~told.edited /\ disk'.file = gen => LogsOf(disk'.dirty) \subseteq {gen} \cup told.loose
      <3>1. SUFFICES ASSUME ~told.edited, f = gen
                     PROVE  LogsOf(disk'.dirty) \subseteq {gen} \cup told.loose
        BY <2>1
      <3>2. \A p \in pieces : Len(p) <= Len(f) => p = gen
        BY <1>2, <1>5, <1>6, <1>7, <3>1
      <3> QED BY <1>2, <1>7, <2>1, <3>1, <3>2 DEF LogsOf
    <2>6. "failed" \in Appending \ {"write"}
          /\ "failed" \notin {"verify", "sync", "truncate", "restoreSync"}
      BY DEF Appending
    <2> QED BY <1>1, <1>4, <1>9, <2>1, <2>2, <2>3, <2>4, <2>5, <2>6, AppendGoes
  <1>10. CASE UNCHANGED disk /\ AnswerLocked
    BY <1>1, <1>2, <1>3, <1>4, <1>10, GivesUp
  <1> QED BY <1>8, <1>9, <1>10 DEF AppendWrite, pieces, recs

\* What was appended reaches the disk, or the append fails.
LEMMA AppendSyncInvariant ==
  ASSUME StoreInv, AppendSync
  PROVE  StoreInv'
  <1> USE DEF StoreInv
  <1>1. op.at = "sync" /\ op.at \in Appending /\ UNCHANGED <<store, gen, told>>
    BY DEF AppendSync, OpHolds, Appending
  <1>2. /\ gen # op.next /\ SubSeq(op.next, 1, Len(gen)) = gen /\ Len(gen) <= Len(disk.file)
        /\ Accepting
    BY <1>1, Appends
  <1>3. disk \in DiskType /\ disk.file \in Contents /\ disk.file \in disk.dirty /\ left \in LeftType
    BY Known DEF FileHolds
  <1>4. left' \in LeftType /\ left'.records = left.records
    BY <1>3, LeftStays DEF AppendSync
  <1>5. ~told.edited => disk.file = op.next
    BY <1>1, <1>2 DEF Untouched
  <1>6. ASSUME NEW at \in {"verify", "failed"}, Goto(at),
               \/ disk' = [disk EXCEPT !.dirty = {disk.file}]
               \/ at = "failed" /\ disk' = disk
        PROVE  StoreInv'
    <2>1. /\ disk' \in DiskType /\ disk'.latest = disk.latest /\ disk'.kept = disk.kept
          /\ disk'.stale = disk.stale /\ disk'.file = disk.file /\ disk'.file \in disk'.dirty
          /\ at = "verify" => disk'.dirty = {disk.file}
      BY <1>3, <1>6 DEF DiskType
    <2>2. at \in Appending \ {"write"} /\ at \notin {"sync", "truncate", "restoreSync"}
      BY DEF Appending
    <2> QED BY <1>1, <1>2, <1>4, <1>5, <1>6, <2>1, <2>2, AppendGoes
  <1> QED BY <1>6 DEF AppendSync

\* What is shown to the clients after an append is what it prepared, on the disk.
LEMMA AppendVerifyInvariant ==
  ASSUME StoreInv, AppendVerify
  PROVE  StoreInv'
  <1> USE DEF StoreInv
  <1>1. op.at = "verify" /\ op.at \in Appending /\ HasPath("op") /\ UNCHANGED disk
    BY DEF AppendVerify, OpHolds, Appending
  <1>2. /\ calls # <<>> /\ op.next \in Contents /\ ~IsTorn(op.next) /\ Complete(op.next) = op.next
        /\ SubSeq(op.next, 1, Len(gen)) = gen /\ Len(gen) <= Len(disk.file) /\ Accepting
    BY <1>1, Appends
  <1>3. /\ disk \in DiskType /\ disk.file \in Contents /\ disk.file \in disk.dirty
        /\ left \in LeftType /\ store \in StoreType /\ disk.stale \in SUBSET Contents
        /\ disk.file = op.next => disk.dirty = {op.next}
    BY <1>1, Known DEF FileHolds
  <1>4. left' \in LeftType /\ left'.records = left.records
    BY <1>3, LeftStays DEF AppendVerify, Commit
  <1>5. CASE disk.file = op.next /\ Commit("ready")
    <2>1. AnswerLocked /\ State("ready") /\ gen' = disk.file /\ told' = Shown(disk.stale)
      BY <1>5 DEF Commit
    <2>2. /\ told' \in ToldType /\ told'.log = op.next /\ told'.loose = LogsOf(disk.stale)
          /\ ~IsTorn(told'.log)
      BY <1>2, <1>3, <1>5, <2>1, ShownTyped
    <2>3. store' \in StoreType /\ store'.closing = store.closing /\ Accepting'
      BY <1>3, <2>1 DEF State, StoreType, Accepting
    <2>4. Ready'
      BY <1>1, <1>2, <1>3, <1>5, <2>1, <2>2 DEF Ready, LogsOf
    <2>5. disk' \in DiskType /\ disk'.latest = disk.latest /\ gen' \in Optional
      BY <1>1, <1>3, <2>1 DEF Optional
    <2> QED BY <1>1, <1>2, <1>4, <2>1, <2>2, <2>3, <2>4, <2>5, Answered
  <1>6. CASE disk.file = op.next /\ Goto("truncate") /\ UNCHANGED <<store, gen, told>>
    <2>1. "truncate" \in Appending \ {"write"}
          /\ "truncate" \notin {"sync", "failed", "verify", "restoreSync"}
      BY DEF Appending
    <2> QED BY <1>1, <1>2, <1>3, <1>4, <1>6, <2>1, AppendGoes
  <1>7. ASSUME NEW s \in {"read-only", "uncertain"}, State(s), AnswerLocked, UNCHANGED <<gen, told>>
        PROVE  StoreInv'
    BY <1>1, <1>2, <1>4, <1>7, Stops, GivesUp
  <1>8. CASE /\ disk.file # op.next
             /\ State(IF Len(disk.file) = Len(op.next)
                         /\ SubSeq(disk.file, 1, Len(op.before)) # op.before
                      THEN "read-only" ELSE "uncertain")
             /\ AnswerLocked /\ UNCHANGED <<gen, told>>
    <2> DEFINE s == IF Len(disk.file) = Len(op.next)
                       /\ SubSeq(disk.file, 1, Len(op.before)) # op.before
                    THEN "read-only" ELSE "uncertain"
    <2>1. s \in {"read-only", "uncertain"}
      OBVIOUS
    <2>2. State(s)
      BY <1>8
    <2> HIDE DEF s
    <2> QED BY <1>7, <1>8, <2>1, <2>2
  <1>9. CASE State("uncertain") /\ AnswerLocked /\ UNCHANGED <<gen, told>>
    BY <1>7, <1>9
  <1> QED BY <1>5, <1>6, <1>8, <1>9 DEF AppendVerify

\* A failed append that left nothing in the file is over.
LEMMA AppendFailedInvariant ==
  ASSUME StoreInv, AppendFailed
  PROVE  StoreInv'
  <1> USE DEF StoreInv
  <1>1. op.at = "failed" /\ op.at \in Appending /\ HasPath("op") /\ UNCHANGED <<disk, gen, told>>
    BY DEF AppendFailed, OpHolds, Appending
  <1>2. /\ calls # <<>> /\ op.before = gen /\ ~IsTorn(gen) /\ Accepting /\ gen = told.log
        /\ Len(gen) <= Len(disk.file)
    BY <1>1, Appends
  <1>3. /\ disk \in DiskType /\ disk.file \in disk.dirty /\ left \in LeftType /\ store \in StoreType
        /\ LogsOf(disk.stale) \subseteq told.loose /\ told \in ToldType /\ gen \in Optional
    BY <1>1, <1>2, Known DEF FileHolds
  <1>4. left' \in LeftType /\ left'.records = left.records
    BY <1>3, LeftStays DEF AppendFailed
  <1>5. ~told.edited => /\ SubSeq(disk.file, 1, Len(gen)) = gen
                        /\ disk.file = gen => LogsOf(disk.dirty) \subseteq {gen} \cup told.loose
    BY <1>1, <1>2 DEF Untouched
  <1>6. CASE disk.file = op.before /\ State(ScannedState) /\ AnswerLocked
    <2>1. store' \in StoreType /\ store'.closing = store.closing
      BY <1>3, <1>6 DEF State, ScannedState, StoreType
    <2>2. Ready'
      BY <1>1, <1>2, <1>3, <1>5, <1>6 DEF Ready, LogsOf
    <2> QED BY <1>1, <1>2, <1>3, <1>4, <1>6, <2>1, <2>2, Answered
  <1>7. CASE Goto("truncate") /\ UNCHANGED store
    <2>1. "truncate" \in Appending \ {"write"}
          /\ "truncate" \notin {"sync", "failed", "verify", "restoreSync"}
      BY DEF Appending
    <2> QED BY <1>1, <1>2, <1>3, <1>4, <1>5, <1>7, <2>1, AppendGoes
  <1> QED BY <1>6, <1>7 DEF AppendFailed

\* The undoing of an append leads back to the document.
LEMMA RollbackInvariant ==
  ASSUME StoreInv, Truncate \/ RollbackSync
  PROVE  StoreInv'
  <1> USE DEF StoreInv
  <1>1. op.at \in {"truncate", "restoreSync"} /\ op.at \in Appending /\ HasPath("op")
        /\ UNCHANGED <<gen, told>>
    BY DEF Truncate, RollbackSync, OpHolds, Appending
  <1>2. /\ calls # <<>> /\ op.before = gen /\ gen \in Contents /\ ~IsTorn(gen) /\ Accepting
        /\ gen = told.log /\ Len(gen) \in Nat /\ Len(disk.file) \in Nat
        /\ Len(gen) <= Len(disk.file) /\ Complete(gen) = gen
    BY <1>1, Appends
  <1>3. /\ disk \in DiskType /\ disk.file \in disk.dirty /\ left \in LeftType /\ store \in StoreType
        /\ LogsOf(disk.stale) \subseteq told.loose /\ told \in ToldType /\ gen \in Optional
        /\ disk.file \in Contents /\ left.records \in 1 .. MaxRecords + 1 /\ ~IsTorn(told.log)
    BY <1>1, <1>2, Known DEF FileHolds
  <1>4. left' \in LeftType /\ left'.records = left.records
    BY <1>3, LeftStays DEF Truncate, RollbackSync
  <1>5. CASE /\ op.at = "truncate" /\ Goto("restoreSync") /\ UNCHANGED store
             /\ LET old == SubSeq(disk.file, 1, Len(op.before))
                IN  disk' = [disk EXCEPT !.file = old, !.dirty = @ \cup {old}]
    <2> DEFINE old == SubSeq(disk.file, 1, Len(op.before))
    <2>1. old \in Contents /\ Len(old) = Len(gen)
      BY <1>2, <1>3, CutTyped
    <2>2. ~told.edited => old = gen
      BY <1>2, <1>5 DEF Untouched
    <2>3. disk' = [disk EXCEPT !.file = old, !.dirty = @ \cup {old}]
      BY <1>5
    <2> HIDE DEF old
    <2>4. /\ disk' \in DiskType /\ disk'.latest = disk.latest /\ disk'.kept = disk.kept
          /\ disk'.stale = disk.stale /\ disk'.file = old /\ disk'.file \in disk'.dirty
      BY <1>3, <2>1, <2>3 DEF DiskType
    <2>5. Len(gen) <= Len(disk'.file)
      BY <1>2, <2>1, <2>4
    <2>6. "restoreSync" \in Appending \ {"write"}
          /\ "restoreSync" \notin {"sync", "failed", "verify", "truncate"}
      BY DEF Appending
    <2> QED BY <1>1, <1>4, <1>5, <2>2, <2>4, <2>5, <2>6, AppendGoes
  <1>6. CASE State("uncertain") /\ AnswerLocked /\ UNCHANGED disk
    BY <1>1, <1>2, <1>4, <1>6, Stops, GivesUp
  <1>7. CASE /\ op.at = "restoreSync" /\ disk' = [disk EXCEPT !.dirty = {disk.file}]
             /\ State(ScannedState) \/ State("uncertain")
             /\ AnswerLocked
    <2>1. /\ disk' \in DiskType /\ disk'.latest = disk.latest /\ disk'.dirty = {disk.file}
          /\ disk'.stale = disk.stale /\ disk'.file = disk.file
      BY <1>3, <1>7 DEF DiskType
    <2>2. store' \in StoreType /\ store'.closing = store.closing
      BY <1>3, <1>7 DEF State, ScannedState, StoreType
    <2>3. ~told.edited => disk.file = gen
      BY <1>2, <1>7 DEF Untouched
    <2>4. Ready'
      BY <1>1, <1>2, <1>3, <2>1, <2>3 DEF Ready, LogsOf
    <2> QED BY <1>1, <1>2, <1>3, <1>4, <1>7, <2>1, <2>2, <2>4, Answered
  <1> QED BY <1>5, <1>6, <1>7 DEF Truncate, RollbackSync, OpHolds

-----------------------------------------------------------------------------
(* Replacing                                                               *)

\* What a running replacement is known to hold.
LEMMA Replaces ==
  ASSUME StoreInv, op.at \in Replacing
  PROVE  /\ HasPath("op") /\ op.at \notin Outside /\ op.kind \in {"rewrite", "restore"}
         /\ calls # <<>> /\ op.next \in Contents /\ ~IsTorn(op.next) /\ Complete(op.next) = op.next
         /\ op.next \in Seq(1 .. left.records - 1) /\ disk.latest # NoContent
  <1> USE DEF StoreInv
  <1>1. /\ HasPath("op") /\ op.at \notin Outside /\ op.kind \in {"rewrite", "restore"}
        /\ calls # <<>> /\ op.next \in Contents /\ ~IsTorn(op.next)
        /\ disk.latest # NoContent /\ left.records \in 1 .. MaxRecords + 1
    BY Known DEF QueueHolds, CallHolds, DocumentHolds, BackupHolds, Outside, Replacing
  <1>2. Complete(op.next) = op.next /\ op.next \in Seq(1 .. left.records - 1)
    BY <1>1, WholeContent
  <1> QED BY <1>1, <1>2

\* A step of a replacement that goes on before the rename.
LEMMA ReplaceGoes ==
  ASSUME StoreInv, HasPath("op"), op.kind \in {"rewrite", "restore"},
         op.at \in {"temp", "tempSync", "recheck"} \/ (op.at = "waiting" /\ op.kind = "restore"),
         op' \in OpType, op'.at \in {"temp", "tempSync", "recheck", "rename"},
         op'.kind = op.kind, op'.before = op.before, op'.next = op.next,
         op'.at \in {"recheck", "rename"} => op'.temp = {op.next},
         op'.at = "rename" => disk.file = op.before,
         UNCHANGED <<disk, store, gen, calls, path, backup, closer>>,
         told' \in ToldType, told'.log = told.log, told'.loose = told.loose,
         told'.edited = told.edited,
         left' \in LeftType, left'.records = left.records
  PROVE  StoreInv'
  <1> USE DEF StoreInv
  <1>1. op.at \notin Outside /\ op'.at \in Replacing /\ op'.at \notin Appending
        /\ op'.at \notin {"waiting", "verify", "write", "dirSync", "renamed", "sync", "failed",
                          "truncate", "restoreSync"}
    BY DEF Outside, Appending, Replacing
  <1>2. Ready
    BY Settled
  <1>3. DocumentHolds'
    BY <1>1 DEF DocumentHolds, Accepting, Replacing
  <1>4. FileHolds'
    BY <1>1, <1>2 DEF FileHolds, Ready, Accepting, LogsOf
  <1>5. Untouched'
    BY <1>1, <1>2 DEF Untouched, Ready, Accepting, LogsOf
  <1>6. ReplacementHolds'
    BY <1>1 DEF ReplacementHolds
  <1>7. disk' \in DiskType /\ disk'.latest = disk.latest /\ store' \in StoreType
        /\ store'.closing = store.closing /\ gen' \in Optional
    BY Known
  <1> QED BY <1>1, <1>3, <1>4, <1>5, <1>6, <1>7, Proceeds

\* A restore goes on only if the file is the log it was confirmed for.
LEMMA RestoreBaselineInvariant ==
  ASSUME StoreInv, RestoreBaseline
  PROVE  StoreInv'
  <1> USE DEF StoreInv
  <1>1. /\ HasPath("op") /\ op.at = "waiting" /\ op.kind = "restore" /\ calls # <<>>
        /\ UNCHANGED <<disk, gen, told>>
    BY DEF RestoreBaseline, OpHolds, CallHolds
  <1>2. /\ left \in LeftType /\ store \in StoreType /\ told \in ToldType
    BY Known
  <1>3. left' \in LeftType /\ left'.records = left.records
    BY <1>2, LeftStays DEF RestoreBaseline
  <1>4. CASE AnswerLocked /\ (UNCHANGED store \/ State("read-only"))
    BY <1>1, <1>2, <1>3, <1>4, Stops, GivesUp
  <1>5. CASE Goto("temp") /\ UNCHANGED store
    <2>1. "temp" \in Appending \cup Replacing
      BY DEF Replacing
    <2>2. /\ op' \in OpType /\ op'.at = "temp" /\ op'.kind = op.kind /\ op'.before = op.before
          /\ op'.next = op.next /\ UNCHANGED <<calls, path, backup, closer>>
      BY <1>5, <2>1, Goes
    <2> QED BY <1>1, <1>2, <1>3, <1>5, <2>2, ReplaceGoes
  <1> QED BY <1>4, <1>5 DEF RestoreBaseline

\* The steps that write the temporary file.
LEMMA TempInvariant ==
  ASSUME StoreInv, TempWrite \/ TempSync
  PROVE  StoreInv'
  <1> USE DEF StoreInv
  <1>1. op.at \in {"temp", "tempSync"} /\ op.at \in Replacing /\ UNCHANGED <<disk, gen, told>>
    BY DEF TempWrite, TempSync, OpHolds, Replacing
  <1>2. /\ HasPath("op") /\ op.kind \in {"rewrite", "restore"} /\ calls # <<>>
        /\ op.next \in Contents /\ op.next \in Seq(1 .. left.records - 1)
    BY <1>1, Replaces
  <1>3. /\ left \in LeftType /\ store \in StoreType /\ told \in ToldType /\ op \in OpType
        /\ left.records \in 1 .. MaxRecords + 1 /\ left.records \in Nat
    BY Known
  <1>4. left' \in LeftType /\ left'.records = left.records
    BY <1>3, LeftStays DEF TempWrite, TempSync, BeforeRename
  <1>5. CASE AnswerLocked /\ UNCHANGED store
    BY <1>1, <1>2, <1>3, <1>4, <1>5, GivesUp
  <1>6. CASE /\ op' = [op EXCEPT !.at = "tempSync", !.temp = Pieces(<<>>, op.next)]
             /\ UNCHANGED <<store, calls, path, backup, closer>>
    <2>1. Pieces(<<>>, op.next) \subseteq Contents
      BY <1>2, <1>3, EmptyContent, PiecesTyped
    <2>2. /\ op' \in OpType /\ op'.at = "tempSync" /\ op'.kind = op.kind
          /\ op'.before = op.before /\ op'.next = op.next
      BY <1>3, <1>6, <2>1 DEF OpType, Replacing
    <2> QED BY <1>1, <1>2, <1>3, <1>4, <1>6, <2>2, ReplaceGoes
  <1>7. CASE /\ op' = [op EXCEPT !.at = "recheck", !.temp = {op.next}]
             /\ UNCHANGED <<store, calls, path, backup, closer>>
    <2>1. /\ op' \in OpType /\ op'.at = "recheck" /\ op'.kind = op.kind
          /\ op'.before = op.before /\ op'.next = op.next /\ op'.temp = {op.next}
      BY <1>2, <1>3, <1>7 DEF OpType, Replacing
    <2> QED BY <1>1, <1>2, <1>3, <1>4, <1>7, <2>1, ReplaceGoes
  <1> QED BY <1>5, <1>6, <1>7 DEF TempWrite, TempSync, BeforeRename

\* The last look at the formal file decides whether it is replaced.
LEMMA RecheckInvariant ==
  ASSUME StoreInv, Recheck
  PROVE  StoreInv'
  <1> USE DEF StoreInv
  <1>1. op.at = "recheck" /\ op.at \in Replacing /\ UNCHANGED <<disk, gen>>
    BY DEF Recheck, OpHolds, Replacing
  <1>2. /\ HasPath("op") /\ op.kind \in {"rewrite", "restore"} /\ calls # <<>>
        /\ op.temp = {op.next}
    BY <1>1, Replaces DEF ReplacementHolds
  <1>3. /\ left \in LeftType /\ store \in StoreType /\ told \in ToldType /\ disk \in DiskType
        /\ gen \in Optional
    BY Known
  <1>4. left' \in LeftType /\ left'.records = left.records
    BY <1>3, LeftStays DEF Recheck, BeforeRename
  <1>5. /\ told' \in ToldType /\ told'.log = told.log /\ told'.loose = told.loose
        /\ told'.edited = told.edited
    BY <1>3 DEF Recheck, ToldType
  <1>6. CASE AnswerLocked /\ (UNCHANGED store \/ State("read-only"))
    <2>1. store' \in StoreType /\ store'.closing = store.closing
          /\ (Accepting' => store' = store)
      BY <1>3, <1>6, Stops
    <2>2. Ready
      BY <1>1, Settled
    <2>3. Ready'
      BY <1>1, <1>5, <2>1, <2>2 DEF Ready, Accepting, LogsOf
    <2> QED BY <1>1, <1>2, <1>3, <1>4, <1>5, <1>6, <2>1, <2>3, Answered
  <1>7. CASE disk.file = op.before /\ Goto("rename") /\ UNCHANGED store
    <2>1. "rename" \in Appending \cup Replacing
      BY DEF Replacing
    <2>2. /\ op' \in OpType /\ op'.at = "rename" /\ op'.kind = op.kind /\ op'.before = op.before
          /\ op'.next = op.next /\ op'.temp = op.temp /\ UNCHANGED <<calls, path, backup, closer>>
      BY <1>7, <2>1, Goes
    <2> QED BY <1>1, <1>2, <1>4, <1>5, <1>7, <2>2, ReplaceGoes
  <1> QED BY <1>6, <1>7 DEF Recheck, BeforeRename

\* The new file takes the place of the old one, which is in doubt until the
\* directory has been synced.
LEMMA RenameInvariant ==
  ASSUME StoreInv, Rename \/ DirSync
  PROVE  StoreInv'
  <1> USE DEF StoreInv
  <1>1. op.at \in {"rename", "dirSync"} /\ op.at \in Replacing /\ UNCHANGED <<store, gen, told>>
    BY DEF Rename, DirSync, OpHolds, Replacing, BeforeRename
  <1>2. /\ HasPath("op") /\ op.kind \in {"rewrite", "restore"} /\ calls # <<>>
        /\ op.at \notin Outside /\ op.next \in Contents
        /\ op.at = "rename" => op.temp = {op.next}
    BY <1>1, Replaces DEF ReplacementHolds
  <1>3. /\ left \in LeftType /\ store \in StoreType /\ told \in ToldType /\ disk \in DiskType
        /\ gen \in Optional /\ op \in OpType /\ disk.dirty \subseteq Contents
        /\ disk.stale \subseteq Contents
    BY Known
  <1>4. left' \in LeftType /\ left'.records = left.records
    BY <1>3, LeftStays DEF Rename, DirSync, BeforeRename
  <1>5. ASSUME op'.at \in {"dirSync", "renamed"}, op' \in OpType, op'.kind = op.kind,
               op'.before = op.before, op'.next = op.next,
               UNCHANGED <<calls, path, backup, closer>>,
               disk' \in DiskType, disk'.latest = disk.latest, disk'.file \in disk'.dirty,
               disk'.file = op.next => disk'.dirty = {op.next},
               op'.at = "renamed" /\ op'.confirmed => disk'.stale = {}
        PROVE  StoreInv'
    <2>1. /\ op'.at \in Replacing /\ op'.at \notin Appending
          /\ op'.at \notin {"waiting", "recheck", "rename", "temp", "tempSync", "write", "sync",
                            "failed", "truncate", "restoreSync"}
      BY <1>5 DEF Appending, Replacing
    <2>2. DocumentHolds'
      BY <1>1, <1>5, <2>1 DEF DocumentHolds, Accepting
    <2>3. FileHolds'
      BY <1>5, <2>1 DEF FileHolds
    <2>4. Untouched'
      BY <1>5, <2>1 DEF Untouched
    <2>5. ReplacementHolds'
      BY <1>5, <2>1 DEF ReplacementHolds
    <2> QED BY <1>1, <1>2, <1>3, <1>4, <1>5, <2>1, <2>2, <2>3, <2>4, <2>5, Proceeds
  <1>6. CASE Rename
    <2>1. CASE AnswerLocked /\ op'.at # "dirSync"
      BY <1>1, <1>2, <1>3, <1>4, <1>6, <2>1, GivesUp DEF Rename, OpHolds
    <2>2. CASE Goto("dirSync")
      <3>1. "dirSync" \in Appending \cup Replacing
        BY DEF Replacing
      <3>2. /\ op' \in OpType /\ op'.at = "dirSync" /\ op'.kind = op.kind /\ op'.before = op.before
            /\ op'.next = op.next /\ UNCHANGED <<calls, path, backup, closer>>
        BY <2>2, <3>1, Goes
      <3>3. disk' = [disk EXCEPT !.file = op.next, !.dirty = op.temp, !.stale = @ \cup disk.dirty]
        BY <1>6, <3>2 DEF Rename
      <3>4. /\ disk' \in DiskType /\ disk'.latest = disk.latest /\ disk'.file = op.next
            /\ disk'.dirty = {op.next}
        BY <1>2, <1>3, <1>6, <3>3 DEF DiskType, Rename, OpHolds
      <3> QED BY <1>5, <3>2, <3>4
    <2>3. AnswerLocked => op'.at = "idle"
      BY DEF AnswerLocked, Answer, NoOp
    <2> QED BY <1>6, <2>1, <2>2, <2>3 DEF Rename, BeforeRename
  <1>7. CASE DirSync
    <2>1. op.at = "dirSync" /\ UNCHANGED <<calls, path, backup, closer>>
          /\ disk.file \in disk.dirty /\ (disk.file = op.next => disk.dirty = {op.next})
      BY <1>7 DEF DirSync, OpHolds, FileHolds
    <2>2. CASE disk' = [disk EXCEPT !.stale = {}] /\ op' = [op EXCEPT !.at = "renamed"]
      <3>1. /\ disk' \in DiskType /\ disk'.latest = disk.latest /\ disk'.file = disk.file
            /\ disk'.dirty = disk.dirty /\ disk'.stale = {}
        BY <1>3, <2>2 DEF DiskType
      <3>2. /\ op' \in OpType /\ op'.at = "renamed" /\ op'.kind = op.kind
            /\ op'.before = op.before /\ op'.next = op.next
        BY <1>3, <2>2 DEF OpType, Replacing
      <3> QED BY <1>5, <2>1, <3>1, <3>2
    <2>3. CASE UNCHANGED disk /\ op' = [op EXCEPT !.at = "renamed", !.confirmed = FALSE]
      <3>1. /\ op' \in OpType /\ op'.at = "renamed" /\ op'.kind = op.kind
            /\ op'.before = op.before /\ op'.next = op.next /\ op'.confirmed = FALSE
        BY <1>3, <2>3 DEF OpType, Replacing
      <3> QED BY <1>3, <1>5, <2>1, <2>3, <3>1
    <2> QED BY <1>7, <2>2, <2>3 DEF DirSync
  <1> QED BY <1>6, <1>7

\* The replaced file is read back, and the clients are shown it.
LEMMA RenamedInvariant ==
  ASSUME StoreInv, Renamed
  PROVE  StoreInv'
  <1> USE DEF StoreInv
  <1>1. op.at = "renamed" /\ op.at \in Replacing /\ UNCHANGED disk
    BY DEF Renamed, OpHolds, Replacing
  <1>2. /\ HasPath("op") /\ calls # <<>> /\ op.next \in Contents /\ Complete(op.next) = op.next
        /\ ~IsTorn(op.next)
    BY <1>1, Replaces
  <1>3. /\ disk \in DiskType /\ disk.file \in Contents /\ disk.file \in disk.dirty
        /\ left \in LeftType /\ store \in StoreType /\ disk.stale \in SUBSET Contents
        /\ disk.file = op.next => disk.dirty = {op.next}
    BY <1>1, Known DEF FileHolds
  <1>4. left' \in LeftType /\ left'.records = left.records
    BY <1>3, LeftStays DEF Renamed, Commit
  <1>5. ASSUME NEW s \in {"ready", "degraded"}, disk.file = op.next, Commit(s)
        PROVE  StoreInv'
    <2>1. AnswerLocked /\ State(s) /\ gen' = disk.file /\ told' = Shown(disk.stale)
      BY <1>5 DEF Commit
    <2>2. /\ told' \in ToldType /\ told'.log = op.next /\ told'.loose = LogsOf(disk.stale)
          /\ ~IsTorn(told'.log)
      BY <1>2, <1>3, <1>5, <2>1, ShownTyped
    <2>3. store' \in StoreType /\ store'.closing = store.closing /\ Accepting'
      BY <1>3, <2>1 DEF State, StoreType, Accepting
    <2>4. Ready'
      BY <1>1, <1>2, <1>3, <1>5, <2>1, <2>2 DEF Ready, LogsOf
    <2>5. disk' \in DiskType /\ disk'.latest = disk.latest /\ gen' \in Optional
      BY <1>1, <1>3, <2>1 DEF Optional
    <2> QED BY <1>1, <1>2, <1>4, <2>1, <2>2, <2>3, <2>4, <2>5, Answered
  <1>6. CASE disk.file = op.next /\ Commit(IF op.confirmed THEN "ready" ELSE "degraded")
    <2>1. CASE op.confirmed
      BY <1>5, <1>6, <2>1
    <2>2. CASE ~op.confirmed
      BY <1>5, <1>6, <2>2
    <2> QED BY <2>1, <2>2
  <1>7. CASE State("uncertain") /\ AnswerLocked /\ UNCHANGED <<gen, told>>
    BY <1>1, <1>2, <1>4, <1>7, Stops, GivesUp
  <1> QED BY <1>6, <1>7 DEF Renamed

-----------------------------------------------------------------------------
(* The theorems                                                            *)

\* A step that changes nothing keeps the invariant.
LEMMA StutterInvariant ==
  ASSUME StoreInv, UNCHANGED vars
  PROVE  StoreInv'
  <1>1. UNCHANGED <<disk, store, gen, calls, op, path, backup, closer, told, left>>
    BY DEF vars
  <1>2. Typed'
    <2>1. Contents' = Contents /\ Optional' = Optional /\ Calls' = Calls
          /\ DiskType' = DiskType /\ OpType' = OpType /\ BackupType' = BackupType
          /\ ToldType' = ToldType
      BY <1>1, TypesStay
    <2> QED BY <1>1, <2>1 DEF StoreInv, Typed
  <1>3. QueueHolds' /\ CallHolds' /\ BackupHolds'
    BY <1>1 DEF StoreInv, QueueHolds, CallHolds, BackupHolds, HasPath
  <1>4. DocumentHolds' /\ FileHolds' /\ Untouched' /\ ReplacementHolds'
    BY <1>1, Beside
  <1> QED BY <1>2, <1>3, <1>4 DEF StoreInv

\* Every step keeps the invariant.
LEMMA NextInvariant == StoreInv /\ [Next]_vars => StoreInv'
  <1> SUFFICES ASSUME StoreInv, [Next]_vars PROVE StoreInv'
    OBVIOUS
  <1>1. CASE Clients
    BY <1>1, ClientInvariant, BackupInvariant, PreviewInvariant, CloseInvariant DEF Clients
  <1>2. CASE StoreStep
    <2>1. CASE Baseline \/ Open \/ RestoreBaseline
      BY <2>1, BaselineInvariant, OpenInvariant, RestoreBaselineInvariant
    <2>2. CASE AppendWrite \/ AppendSync \/ AppendVerify \/ AppendFailed \/ Truncate \/ RollbackSync
      BY <2>2, AppendWriteInvariant, AppendSyncInvariant, AppendVerifyInvariant,
         AppendFailedInvariant, RollbackInvariant
    <2>3. CASE TempWrite \/ TempSync \/ Recheck \/ Rename \/ DirSync \/ Renamed
      BY <2>3, TempInvariant, RecheckInvariant, RenameInvariant, RenamedInvariant
    <2> QED BY <1>2, <2>1, <2>2, <2>3 DEF StoreStep
  <1>3. CASE ProviderStep
    BY <1>3, MutationInvariant, EnsureInvariant, ReopenInvariant, RestoreInvariant DEF ProviderStep
  <1>4. CASE BackupStep
    BY <1>4, BackupInvariant, PreviewInvariant DEF BackupStep
  <1>5. CASE CloseStep
    BY <1>5, CloseInvariant
  <1>6. CASE World
    BY <1>6, RestartInvariant, EditInvariant DEF World
  <1>7. CASE UNCHANGED vars
    BY <1>7, StutterInvariant
  <1> QED BY <1>1, <1>2, <1>3, <1>4, <1>5, <1>6, <1>7 DEF Next

\* The queue, the running call, the backups, the document, what the clients were shown and
\* what a power failure may leave agree at every step of every call, whatever the file
\* system, the clients, other programs and the machine do.
THEOREM StoreIsSound == Spec => []StoreInv
  <1> QED BY InitInvariant, NextInvariant, PTL DEF Spec

\* A rewrite or a restore replaces the very version it was prepared from, with a backup in
\* place; a restore has kept that version.
THEOREM ReplacementsAreSafe == Spec => ReplacesWhatItRead
  <1> DEFINE Safe ==
        op.at = "rename" /\ op'.at = "dirSync"
          => /\ disk.latest # NoContent
             /\ told.late \/ disk.file = op.before
             /\ op.kind = "restore" /\ ~told.late => disk.kept = disk.file
  <1>1. StoreInv => Safe
    <2> SUFFICES ASSUME StoreInv, op.at = "rename"
                 PROVE  /\ disk.latest # NoContent
                        /\ told.late \/ disk.file = op.before
                        /\ op.kind = "restore" /\ ~told.late => disk.kept = disk.file
      OBVIOUS
    <2>1. disk.latest # NoContent
      BY Replaces DEF Replacing
    <2>2. told.late \/ disk.file = op.before
      BY DEF StoreInv, ReplacementHolds
    <2>3. op.kind = "restore" => disk.kept = op.before \/ disk.file # op.before
      BY DEF StoreInv, ReplacementHolds
    <2> QED BY <2>1, <2>2, <2>3
  <1>2. StoreInv /\ [Next]_vars => [Safe]_vars
    BY <1>1
  <1> QED BY <1>2, StoreIsSound, PTL DEF Spec, ReplacesWhatItRead
-----------------------------------------------------------------------------
(* The refinement: every step is one of DurableLog, or a stutter           *)

\* The logs that a restart could find.
Findable == LogsOf(AfterPowerLoss)

Same == told'.log = told.log /\ told'.loose = told.loose /\ told'.edited = told.edited

Abstract == [Durable!Next]_(Durable!vars)

\* A call in flight has a log of its own to produce.
LEMMA CallTyped ==
  ASSUME StoreInv
  PROVE  /\ op.kind \in {"append", "rewrite", "restore"}
              => InFlight = op.next /\ InFlight \in Seq(Records) /\ InFlight # NoContent
         /\ op.kind \notin {"append", "rewrite", "restore"} => InFlight = NoContent
  <1>1. op.next \in Contents /\ left.records \in Nat /\ left.records \in 1 .. MaxRecords + 1
    BY Known DEF StoreInv
  <1>2. op.kind \in {"append", "rewrite", "restore"} => Complete(op.next) = op.next
    BY DEF StoreInv, DocumentHolds, Complete
  <1>3. op.next # NoContent
    BY <1>1, ContentExists
  <1>4. Complete(op.next) \in Seq(Records)
    BY <1>1, WholeContent
  <1> QED BY <1>2, <1>3, <1>4 DEF InFlight

\* What a restart could find depends on the file and its unsynced past.
LEMMA FindableTyped ==
  ASSUME StoreInv
  PROVE  /\ Complete(disk.file) \in Findable
         /\ \A c \in disk.dirty : Complete(c) \in Findable
         /\ \A c \in disk.stale : Complete(c) \in Findable
  BY DEF StoreInv, FileHolds, Findable, AfterPowerLoss, LogsOf

\* A call stays in flight when its place changes only; outside of the mutations none is.
LEMMA InFlightStays ==
  ASSUME \/ op'.kind = op.kind /\ op'.next = op.next
         \/ /\ op.kind \notin {"append", "rewrite", "restore"}
            /\ op'.kind \notin {"append", "rewrite", "restore"}
  PROVE  InFlight' = InFlight
  BY DEF InFlight, Complete, IsTorn

\* A step that the clients and the disk do not notice.
LEMMA Unseen ==
  ASSUME \/ op'.kind = op.kind /\ op'.next = op.next
         \/ /\ op.kind \notin {"append", "rewrite", "restore"}
            /\ op'.kind \notin {"append", "rewrite", "restore"},
         disk'.dirty = disk.dirty, disk'.stale = disk.stale, store'.state = store.state, Same
  PROVE  Abstract
  <1>1. InFlight' = InFlight
    BY InFlightStays
  <1>2. LogsOf(AfterPowerLoss)' = LogsOf(AfterPowerLoss) /\ Accepting' = Accepting
    BY DEF LogsOf, AfterPowerLoss, Accepting
  <1> QED BY <1>1, <1>2 DEF Abstract, Same, Durable!vars

\* A step of a call that stays in flight.
LEMMA Progresses ==
  ASSUME StoreInv, op.kind \in {"append", "rewrite", "restore"},
         op'.kind = op.kind, op'.next = op.next, Same,
         told.edited \/ Findable' \subseteq Findable \cup Durable!Remains(InFlight),
         \/ store'.state = store.state
         \/ ~Accepting'
  PROVE  Abstract
  <1>1. InFlight' = InFlight /\ InFlight # NoContent
    <2>1. InFlight' = InFlight
      BY DEF InFlight, Complete, IsTorn
    <2> QED BY <2>1, CallTyped
  <1>2. /\ ~Accepting => ~Accepting'
        /\ (store'.state = "degraded") \in {store.state = "degraded", FALSE}
    BY DEF Accepting
  <1>3. Durable!Progress
    BY <1>1, <1>2 DEF Durable!Progress, Same, Findable
  <1> QED BY <1>3 DEF Abstract, Durable!Next

\* A call ends without success: the log is what it was, or it accepts nothing more.
LEMMA Ends ==
  ASSUME StoreInv, StoreInv', op.kind \in {"append", "rewrite", "restore"}, op' = NoOp, Same,
         Findable' \subseteq Findable,
         Accepting' => Accepting /\ store'.state \in {store.state, "ready"}
  PROVE  Abstract
  <1>1. InFlight' = NoContent /\ InFlight # NoContent
    <2>1. InFlight # NoContent
      BY CallTyped
    <2> QED BY <2>1 DEF InFlight, NoOp
  <1>2. CASE Accepting'
    <2>1. /\ gen' = told'.log /\ LogsOf(disk.stale)' \subseteq told'.loose
          /\ disk'.file \in disk'.dirty
          /\ ~told'.edited => disk'.file = gen' /\ LogsOf(disk.dirty)' \subseteq {gen'} \cup told'.loose
      <3>1. op'.at \notin Appending /\ op'.at \notin {"dirSync", "renamed"}
        BY DEF NoOp, Appending
      <3> QED BY <1>2, <3>1 DEF StoreInv, DocumentHolds, FileHolds, Untouched
    <2>2. Findable' = LogsOf(disk'.dirty \cup disk'.stale)
          /\ LogsOf(disk.dirty)' = LogsOf(disk'.dirty) /\ LogsOf(disk.stale)' = LogsOf(disk'.stale)
      BY DEF Findable, LogsOf, AfterPowerLoss
    <2>3. Complete(told.log) = told.log
      BY DEF StoreInv, DocumentHolds, Complete
    <2>4. told.edited \/ (told.log \in Findable' /\ Findable' \subseteq {told.log} \cup told.loose)
      <3>1. SUFFICES ASSUME ~told.edited
                     PROVE  told.log \in Findable' /\ Findable' \subseteq {told.log} \cup told.loose
        OBVIOUS
      <3>2. told.log \in disk'.dirty
        BY <2>1, <3>1 DEF Same
      <3>3. LogsOf(disk'.dirty) \subseteq {told.log} \cup told.loose
            /\ LogsOf(disk'.stale) \subseteq told.loose
        BY <2>1, <2>2, <3>1 DEF Same
      <3> QED BY <2>2, <2>3, <3>2, <3>3 DEF LogsOf
    <2>5. Durable!Refuse
      BY <1>1, <1>2, <2>4 DEF Durable!Refuse, Same, Findable
    <2> QED BY <2>5 DEF Abstract, Durable!Next
  <1>3. CASE ~Accepting'
    <2>1. Durable!LeaveInDoubt
      BY <1>1, <1>3 DEF Durable!LeaveInDoubt, Same, Findable, Accepting
    <2> QED BY <2>1 DEF Abstract, Durable!Next
  <1> QED BY <1>2, <1>3

\* A call ends with the log it was to produce.
LEMMA Acknowledges ==
  ASSUME StoreInv, op.kind \in {"append", "rewrite", "restore"},
         disk.file = op.next, disk.dirty = {op.next}, UNCHANGED disk,
         NEW s \in {"ready", "degraded"}, Commit(s),
         s = "degraded" \/ LogsOf(disk.stale) \subseteq told.loose
  PROVE  Abstract
  <1>1. /\ InFlight = op.next /\ InFlight # NoContent /\ Complete(op.next) = op.next
        /\ InFlight' = NoContent
    <2>1. InFlight = op.next /\ InFlight # NoContent
      BY CallTyped
    <2>2. InFlight' = NoContent
      BY DEF Commit, AnswerLocked, Answer, InFlight, NoOp
    <2> QED BY <2>1, <2>2 DEF InFlight
  <1>2. /\ told'.log = op.next /\ told'.loose = LogsOf(disk.stale) /\ told'.edited = FALSE
    BY <1>1 DEF Commit, Shown, LogsOf
  <1>3. store'.state = s
    BY Known DEF Commit, State, StoreInv, StoreType
  <1>4. LogsOf(AfterPowerLoss)' = LogsOf(AfterPowerLoss)
        /\ LogsOf(AfterPowerLoss) = {op.next} \cup LogsOf(disk.stale)
    BY <1>1 DEF LogsOf, AfterPowerLoss
  <1>5. Durable!Acknowledge
    BY <1>1, <1>2, <1>3, <1>4 DEF Durable!Acknowledge, Accepting
  <1> QED BY <1>5 DEF Abstract, Durable!Next

\* A call ends and leaves the disk alone.
LEMMA EndsQuietly ==
  ASSUME StoreInv, StoreInv', op.kind \in {"append", "rewrite", "restore"},
         AnswerLocked \/ AnswerUnlocked, disk'.dirty = disk.dirty, disk'.stale = disk.stale, Same,
         store'.state = store.state \/ ~Accepting'
  PROVE  Abstract
  <1>1. op' = NoOp
    BY DEF AnswerLocked, AnswerUnlocked, Answer
  <1>2. Findable' \subseteq Findable
    BY DEF Findable, LogsOf, AfterPowerLoss
  <1>3. Accepting' => Accepting /\ store'.state \in {store.state, "ready"}
    BY DEF Accepting
  <1> QED BY <1>1, <1>2, <1>3, Ends

\* What the clients, the backups and the close do beside the running call.
LEMMA AsideRefines ==
  ASSUME StoreInv,
         \/ \E n \in 1 .. 2 : CallAppend(n)
         \/ \E r \in Records : CallUpdate(r) \/ CallDelete(r)
         \/ CallReopen \/ CallRestore \/ StartBackup \/ StartPreview \/ Close
         \/ BackupStep \/ CloseFlushed \/ CloseStore
  PROVE  Abstract
  <1>1. op' = op /\ Same /\ disk'.dirty = disk.dirty /\ disk'.stale = disk.stale
        /\ store'.state = store.state
    <2>1. CASE \/ \E n \in 1 .. 2 : CallAppend(n)
               \/ \E r \in Records : CallUpdate(r) \/ CallDelete(r)
               \/ CallReopen \/ CallRestore \/ StartBackup \/ StartPreview \/ Close
               \/ OpenSnapshot \/ QueuePreview \/ Preview \/ CloseFlushed
      BY <2>1 DEF Same, CallAppend, CallUpdate, CallDelete, CallReopen, CallRestore, Enqueue,
         StartBackup, StartPreview, Close, OpenSnapshot, QueuePreview, Preview, CloseFlushed
    <2>2. CASE FinishBackup
      BY <2>2, Known DEF Same, FinishBackup, StoreInv, DiskType
    <2>3. CASE CloseStore
      BY <2>3, Known DEF Same, CloseStore, StoreInv, StoreType
    <2> QED BY <2>1, <2>2, <2>3 DEF BackupStep
  <1> QED BY <1>1, Unseen

\* A mutation or a restore starts, or is turned away before anything has happened.
LEMMA BeginRefines ==
  ASSUME StoreInv, StoreInv', BeginMutation \/ BeginRestore
  PROVE  Abstract
  <1>1. op.at = "idle" /\ op.kind = "none" /\ UNCHANGED <<disk, store, told, left>>
    BY DEF BeginMutation, BeginRestore, StoreInv, CallHolds
  <1>2. CASE op'.kind \notin {"append", "rewrite", "restore"}
    BY <1>1, <1>2, Unseen DEF Same
  <1>3. CASE op'.kind \in {"append", "rewrite", "restore"}
    <2>1. op'.next \in Contents' /\ Contents' = Contents /\ ~IsTorn(op'.next)
          /\ left.records \in 1 .. MaxRecords + 1
      <3>1. op'.next \in Contents'
        BY DEF StoreInv, Typed, OpType
      <3>2. Contents' = Contents
        BY <1>1, TypesStay
      <3>3. ~IsTorn(op'.next)
        BY <1>3 DEF StoreInv, DocumentHolds, IsTorn
      <3> QED BY <3>1, <3>2, <3>3, Known DEF StoreInv
    <2>2. Complete(op'.next) \in Seq(Records)
      BY <2>1, WholeContent
    <2>3. InFlight = NoContent /\ InFlight' = Complete(op'.next)
      BY <1>1, <1>3 DEF InFlight, Complete, IsTorn
    <2>4. LogsOf(AfterPowerLoss)' = LogsOf(AfterPowerLoss) /\ Accepting' = Accepting
      BY <1>1 DEF LogsOf, AfterPowerLoss, Accepting
    <2>5. Durable!Start
      BY <1>1, <2>2, <2>3, <2>4 DEF Durable!Start, Durable!Logs
    <2> QED BY <2>5 DEF Abstract, Durable!Next
  <1> QED BY <1>2, <1>3

\* A rewrite waits for its backup, and a restore for its copy of the log.
LEMMA EnsureRefines ==
  ASSUME StoreInv, StoreInv', EnsureBackup \/ KeepMain
  PROVE  Abstract
  <1>1. /\ op.kind \in {"rewrite", "restore"} /\ UNCHANGED <<store, told>>
        /\ disk'.dirty = disk.dirty /\ disk'.stale = disk.stale
    BY Known DEF EnsureBackup, KeepMain, StoreInv, CallHolds, DiskType
  <1>2. ASSUME NEW at \in {"ensure", "backing", "waiting"}, op' = [op EXCEPT !.at = at]
        PROVE  Abstract
    <2>1. op'.kind = op.kind /\ op'.next = op.next
      BY <1>2, Known DEF StoreInv, OpType
    <2> QED BY <1>1, <2>1, Unseen DEF Same
  <1>3. CASE AnswerUnlocked
    BY <1>1, <1>3, EndsQuietly DEF Same
  <1>4. CASE EnterStore(op)
    BY <1>2, <1>3, <1>4 DEF EnterStore
  <1> QED BY <1>2, <1>3, <1>4 DEF EnsureBackup, KeepMain

\* The log is read again, or is closed, or cannot be read.
LEMMA ReopenRefines ==
  ASSUME StoreInv, BeginReopen \/ Open
  PROVE  Abstract
  <1>1. op.kind \notin {"append", "rewrite", "restore"} /\ op.at \in {"idle", "waiting"}
        /\ UNCHANGED disk
    BY DEF BeginReopen, Open, OpHolds, StoreInv, CallHolds
  <1>2. LogsOf(AfterPowerLoss)' = LogsOf(AfterPowerLoss)
    BY <1>1 DEF LogsOf, AfterPowerLoss
  <1>3. CASE op' = [NoOp EXCEPT !.at = "waiting", !.kind = "reopen"] /\ UNCHANGED <<store, told>>
    BY <1>1, <1>3, Unseen DEF NoOp, Same
  <1>4. ASSUME NEW s \in {"closed", "unavailable"}, State(s), op' = NoOp, UNCHANGED told
        PROVE  Abstract
    <2>1. ~Accepting' /\ store'.state # "degraded"
      BY <1>4, Stops DEF Accepting
    <2>2. InFlight = NoContent /\ InFlight' = NoContent
      BY <1>1, <1>4 DEF InFlight, NoOp
    <2>3. Durable!Halt
      BY <1>2, <1>4, <2>1, <2>2 DEF Durable!Halt
    <2> QED BY <2>3 DEF Abstract, Durable!Next
  <1>5. CASE /\ State(ScannedState) /\ op' = NoOp
             /\ told' = Shown((disk.dirty \ {disk.file}) \cup disk.stale)
    <2> DEFINE others == (disk.dirty \ {disk.file}) \cup disk.stale
    <2>1. /\ told'.log = Complete(disk.file) /\ told'.loose = LogsOf(others)
          /\ told'.edited = FALSE
      BY <1>5 DEF Shown, LogsOf
    <2>2. LogsOf(AfterPowerLoss) = LogsOf(others) \cup {Complete(disk.file)}
      BY DEF StoreInv, FileHolds, LogsOf, AfterPowerLoss
    <2> HIDE DEF others
    <2>3. told'.loose \in {LogsOf(AfterPowerLoss), LogsOf(AfterPowerLoss) \ {told'.log}}
      BY <2>1, <2>2
    <2>4. ~Accepting \/ told.edited \/ told'.log = told.log
      <3>1. op.at \notin Appending \cup {"dirSync", "renamed"}
        BY <1>1 DEF Appending
      <3>2. Accepting /\ ~told.edited => disk.file = gen /\ gen = told.log /\ ~IsTorn(told.log)
        BY <3>1 DEF StoreInv, Untouched, DocumentHolds
      <3> QED BY <2>1, <3>2 DEF Complete
    <2>5. store'.state # "degraded"
      BY <1>5, Known DEF State, ScannedState, StoreInv, StoreType
    <2>6. InFlight = NoContent /\ InFlight' = NoContent
      BY <1>1, <1>5 DEF InFlight, NoOp
    <2>7. Durable!Recover
      BY <1>2, <2>1, <2>2, <2>3, <2>4, <2>5, <2>6 DEF Durable!Recover, Accepting
    <2> QED BY <2>7 DEF Abstract, Durable!Next
  <1> QED BY <1>3, <1>4, <1>5 DEF BeginReopen, Open, AnswerUnlocked, Answer

\* A mutation finds the file as it expects it, or gives up; a replacement prepares the
\* file that is to take its place.
LEMMA PrepareRefines ==
  ASSUME StoreInv, StoreInv', Baseline \/ RestoreBaseline \/ TempWrite \/ TempSync \/ Recheck
  PROVE  Abstract
  <1>1. /\ op.kind \in {"append", "rewrite", "restore"} /\ UNCHANGED disk /\ Same
    <2>1. Same
      BY Known
         DEF StoreInv, ToldType, Same, Baseline, RestoreBaseline, TempWrite, TempSync, Recheck
    <2>2. op.kind \in {"append", "rewrite", "restore"} /\ UNCHANGED disk
      BY Replaces
         DEF Baseline, RestoreBaseline, TempWrite, TempSync, Recheck, OpHolds, Replacing
    <2> QED BY <2>1, <2>2
  <1>2. CASE AnswerLocked /\ (UNCHANGED store \/ State("read-only"))
    BY <1>1, <1>2, Stops, EndsQuietly
  <1>3. CASE op'.kind = op.kind /\ op'.next = op.next /\ UNCHANGED store
    BY <1>1, <1>3, Unseen
  <1>4. op \in OpType
    BY Known DEF StoreInv
  <1>5. CASE Baseline
    BY <1>2, <1>3, <1>4, <1>5 DEF Baseline, OpType
  <1>6. CASE RestoreBaseline
    BY <1>2, <1>3, <1>4, <1>6 DEF RestoreBaseline, Goto, OpType
  <1>7. CASE TempWrite \/ TempSync
    BY <1>2, <1>3, <1>4, <1>7 DEF TempWrite, TempSync, BeforeRename, OpType
  <1>8. CASE Recheck
    BY <1>2, <1>3, <1>4, <1>8 DEF Recheck, BeforeRename, Goto, OpType
  <1> QED BY <1>5, <1>6, <1>7, <1>8

\* What an append or its undoing may leave in a file that nobody else has touched.
LEMMA RemainsOfAppend ==
  ASSUME StoreInv, op.at \in Appending
  PROVE  /\ InFlight = op.next /\ told.log \in Durable!Remains(InFlight)
         /\ disk.file = gen =>
              \A p \in Pieces(gen, SubSeq(op.next, Len(op.before) + 1, Len(op.next))) :
                 Complete(p) \in Durable!Remains(InFlight)
  <1> DEFINE recs == SubSeq(op.next, Len(gen) + 1, Len(op.next))
  <1>1. /\ op.kind = "append" /\ op.before = gen /\ gen = told.log /\ gen \in Contents
        /\ ~IsTorn(gen) /\ op.next \in Contents /\ ~IsTorn(op.next) /\ IsStrictPrefix(gen, op.next)
        /\ left.records \in 1 .. MaxRecords + 1
    BY Appends, Known DEF StoreInv
  <1>2. InFlight = op.next
    BY <1>1, CallTyped
  <1>3. recs \in Seq(1 .. left.records - 1)
        /\ \A k \in 0 .. Len(recs) :
          /\ Len(gen) + k \in 0 .. Len(op.next)
          /\ gen \o SubSeq(recs, 1, k) = SubSeq(op.next, 1, Len(gen) + k)
          /\ IsPrefix(gen, SubSeq(op.next, 1, Len(gen) + k))
    BY <1>1, AddedTyped
  <1> HIDE DEF recs
  <1>4. \A p \in Pieces(gen, recs) : \E k \in 0 .. Len(recs) : Complete(p) = gen \o SubSeq(recs, 1, k)
    BY <1>1, <1>3, PiecesTyped
  <1>5. \A p \in Pieces(gen, recs) :
          \E n \in 0 .. Len(op.next) : /\ Complete(p) = SubSeq(op.next, 1, n)
                                       /\ IsPrefix(gen, SubSeq(op.next, 1, n))
    BY <1>3, <1>4
  <1>6. \A p \in Pieces(gen, recs) : Complete(p) \in Durable!Remains(InFlight)
    <2>1. \A p : IsPrefix(gen, p) => Durable!IsPrefix(told.log, p)
      BY <1>1 DEF IsPrefix, Durable!IsPrefix
    <2> QED BY <1>2, <1>5, <2>1 DEF Durable!Remains
  <1>7. told.log \in Durable!Remains(InFlight)
    BY DEF Durable!Remains
  <1> QED BY <1>1, <1>2, <1>6, <1>7 DEF recs

\* The records go to the file, to the disk, or not to their end.
LEMMA AppendRefines ==
  ASSUME StoreInv, StoreInv', AppendWrite \/ AppendSync
  PROVE  Abstract
  <1> DEFINE recs == SubSeq(op.next, Len(op.before) + 1, Len(op.next))
             pieces == Pieces(disk.file, recs)
  <1>1. op.at \in {"write", "sync"} /\ op.at \in Appending /\ UNCHANGED <<store, told>> /\ Same
        /\ op.kind = "append" /\ op.before = gen
    BY Appends DEF AppendWrite, AppendSync, OpHolds, Appending, Same
  <1>2. disk \in DiskType /\ op \in OpType /\ disk.file \in disk.dirty
    BY Known DEF StoreInv, FileHolds
  <1>3. ASSUME NEW at, Goto(at),
               told.edited \/ Findable' \subseteq Findable \cup Durable!Remains(InFlight)
        PROVE  Abstract
    <2>1. op'.kind = op.kind /\ op'.next = op.next
      BY <1>2, <1>3 DEF Goto, OpType
    <2> QED BY <1>1, <1>3, <2>1, Progresses
  <1>4. CASE AppendWrite
    <2>1. op.at = "write" /\ (~told.edited => disk.file = gen)
      BY <1>4, Appends DEF AppendWrite, OpHolds, StoreInv, Untouched, Appending
    <2>2. ~told.edited => \A p \in pieces : Complete(p) \in Durable!Remains(InFlight)
      BY <1>1, <2>1, RemainsOfAppend
    <2> HIDE DEF recs, pieces
    <2>3. ASSUME NEW f, NEW more \in SUBSET pieces,
                 disk' = [disk EXCEPT !.file = f, !.dirty = @ \cup more]
          PROVE  told.edited \/ Findable' \subseteq Findable \cup Durable!Remains(InFlight)
      <3>1. disk'.dirty = disk.dirty \cup more /\ disk'.stale = disk.stale
        BY <1>2, <2>3 DEF DiskType
      <3>2. Findable' = LogsOf(disk'.dirty \cup disk'.stale)
            /\ Findable = LogsOf(disk.dirty \cup disk.stale)
        BY DEF Findable, LogsOf, AfterPowerLoss
      <3> QED BY <2>2, <2>3, <3>1, <3>2 DEF LogsOf
    <2>4. CASE /\ disk' = [disk EXCEPT !.file = @ \o recs, !.dirty = @ \cup pieces]
               /\ Goto("sync")
      BY <1>3, <2>3, <2>4
    <2>5. ASSUME NEW f \in pieces, Goto("failed"),
                 disk' = [disk EXCEPT !.file = f,
                            !.dirty = @ \cup {p \in pieces : Len(p) <= Len(f)}]
          PROVE  Abstract
      BY <1>3, <2>3, <2>5
    <2>6. CASE UNCHANGED disk /\ AnswerLocked
      BY <1>1, <2>6, EndsQuietly
    <2> QED BY <1>4, <2>4, <2>5, <2>6 DEF AppendWrite, pieces, recs
  <1>5. CASE AppendSync
    <2>1. Findable' \subseteq Findable
      <3>1. disk'.dirty \subseteq disk.dirty /\ disk'.stale = disk.stale
        BY <1>2, <1>5 DEF AppendSync, DiskType
      <3> QED BY <3>1 DEF Findable, LogsOf, AfterPowerLoss
    <2> QED BY <1>3, <1>5, <2>1 DEF AppendSync
  <1> QED BY <1>4, <1>5

\* An append is verified, or its failure is looked at.
LEMMA AppendEndRefines ==
  ASSUME StoreInv, StoreInv', AppendVerify \/ AppendFailed
  PROVE  Abstract
  <1>1. op.at \in {"verify", "failed"} /\ op.at \in Appending /\ UNCHANGED disk
        /\ op.kind = "append" /\ op.before = gen /\ ~IsTorn(gen) /\ Accepting
    BY Appends DEF AppendVerify, AppendFailed, OpHolds, Appending
  <1>2. op \in OpType /\ store \in StoreType
    BY Known DEF StoreInv
  <1>3. ASSUME Goto("truncate"), UNCHANGED <<store, told>> PROVE Abstract
    <2>1. op'.kind = op.kind /\ op'.next = op.next
      BY <1>2, <1>3 DEF Goto, OpType
    <2> QED BY <1>1, <1>3, <2>1, Unseen DEF Same
  <1>4. ASSUME NEW s \in {"read-only", "uncertain"}, State(s), AnswerLocked, UNCHANGED told
        PROVE  Abstract
    BY <1>1, <1>4, Stops, EndsQuietly DEF Same
  <1>5. CASE op.at = "verify" /\ disk.file = op.next /\ Commit("ready")
    <2>1. disk.dirty = {op.next} /\ LogsOf(disk.stale) \subseteq told.loose
      BY <1>1, <1>5 DEF StoreInv, FileHolds
    <2> QED BY <1>1, <1>5, <2>1, Acknowledges
  <1>6. CASE disk.file = op.before /\ State(ScannedState) /\ AnswerLocked /\ UNCHANGED told
    <2>1. op' = NoOp /\ Findable' \subseteq Findable
      BY <1>1, <1>6 DEF AnswerLocked, Answer, Findable, LogsOf, AfterPowerLoss
    <2>2. store'.state = "ready"
      BY <1>1, <1>2, <1>6 DEF State, ScannedState, StoreType
    <2> QED BY <1>1, <1>6, <2>1, <2>2, Ends DEF Same
  <1>7. CASE AppendVerify
    <2> DEFINE s == IF Len(disk.file) = Len(op.next)
                       /\ SubSeq(disk.file, 1, Len(op.before)) # op.before
                    THEN "read-only" ELSE "uncertain"
    <2>1. s \in {"read-only", "uncertain"}
      OBVIOUS
    <2>2. \/ disk.file = op.next /\ Commit("ready")
          \/ Goto("truncate") /\ UNCHANGED <<store, told>>
          \/ State(s) /\ AnswerLocked /\ UNCHANGED told
          \/ State("uncertain") /\ AnswerLocked /\ UNCHANGED told
      BY <1>7 DEF AppendVerify
    <2>3. op.at = "verify"
      BY <1>7 DEF AppendVerify, OpHolds
    <2> HIDE DEF s
    <2> QED BY <1>3, <1>4, <1>5, <2>1, <2>2, <2>3
  <1>8. CASE AppendFailed
    BY <1>3, <1>6, <1>8 DEF AppendFailed
  <1> QED BY <1>7, <1>8

\* A failed append is undone, and the undoing reaches the disk.
LEMMA RollbackRefines ==
  ASSUME StoreInv, StoreInv', Truncate \/ RollbackSync
  PROVE  Abstract
  <1>1. /\ op.at \in {"truncate", "restoreSync"} /\ op.at \in Appending /\ UNCHANGED told /\ Same
        /\ op.kind = "append" /\ op.before = gen /\ gen = told.log /\ ~IsTorn(gen) /\ Accepting
        /\ Complete(gen) = gen
    BY Appends DEF Truncate, RollbackSync, OpHolds, Appending, Same
  <1>2. op \in OpType /\ store \in StoreType /\ disk \in DiskType /\ disk.file \in disk.dirty
    BY Known DEF StoreInv, FileHolds
  <1>3. CASE State("uncertain") /\ AnswerLocked /\ UNCHANGED disk
    BY <1>1, <1>3, Stops, EndsQuietly
  <1>4. CASE /\ op.at = "truncate" /\ Goto("restoreSync") /\ UNCHANGED store
             /\ LET old == SubSeq(disk.file, 1, Len(op.before))
                IN  disk' = [disk EXCEPT !.file = old, !.dirty = @ \cup {old}]
    <2> DEFINE old == SubSeq(disk.file, 1, Len(op.before))
    <2>1. ~told.edited => old = gen
      BY <1>1, <1>4 DEF StoreInv, Untouched
    <2>2. disk' = [disk EXCEPT !.file = old, !.dirty = @ \cup {old}]
      BY <1>4
    <2> HIDE DEF old
    <2>3. disk'.dirty = disk.dirty \cup {old} /\ disk'.stale = disk.stale
      BY <1>2, <2>2 DEF DiskType
    <2>4. Findable' = LogsOf(disk'.dirty \cup disk'.stale)
          /\ Findable = LogsOf(disk.dirty \cup disk.stale)
      BY DEF Findable, LogsOf, AfterPowerLoss
    <2>5. told.log \in Durable!Remains(InFlight)
      BY <1>1, RemainsOfAppend
    <2>6. told.edited \/ Findable' \subseteq Findable \cup Durable!Remains(InFlight)
      BY <1>1, <2>1, <2>3, <2>4, <2>5 DEF LogsOf
    <2>7. op'.kind = op.kind /\ op'.next = op.next
      BY <1>2, <1>4 DEF Goto, OpType
    <2> QED BY <1>1, <1>4, <2>6, <2>7, Progresses
  <1>5. CASE /\ disk' = [disk EXCEPT !.dirty = {disk.file}]
             /\ State(ScannedState) \/ State("uncertain")
             /\ AnswerLocked
    <2>1. Findable' \subseteq Findable
      <3>1. disk'.dirty \subseteq disk.dirty /\ disk'.stale = disk.stale
        BY <1>2, <1>5 DEF DiskType
      <3> QED BY <3>1 DEF Findable, LogsOf, AfterPowerLoss
    <2>2. op' = NoOp
      BY <1>5 DEF AnswerLocked, Answer
    <2>3. Accepting' => store'.state = "ready"
      BY <1>2, <1>5 DEF State, ScannedState, StoreType, Accepting
    <2> QED BY <1>1, <2>1, <2>2, <2>3, Ends
  <1> QED BY <1>3, <1>4, <1>5 DEF Truncate, RollbackSync, OpHolds

\* The new file takes the place of the old one, and the clients are shown it.
LEMMA ReplaceRefines ==
  ASSUME StoreInv, StoreInv', Rename \/ DirSync \/ Renamed
  PROVE  Abstract
  <1>1. /\ op.at \in {"rename", "dirSync", "renamed"} /\ op.at \in Replacing
        /\ op.kind \in {"append", "rewrite", "restore"} /\ Complete(op.next) = op.next
        /\ InFlight = op.next
    BY Replaces, CallTyped DEF Rename, DirSync, Renamed, OpHolds, Replacing
  <1>2. op \in OpType /\ store \in StoreType /\ disk \in DiskType
    BY Known DEF StoreInv
  <1>3. CASE Rename
    <2>1. Same /\ UNCHANGED store
      BY <1>3 DEF Rename, BeforeRename, Same
    <2>2. CASE AnswerLocked /\ op'.at # "dirSync"
      BY <1>1, <1>3, <2>1, <2>2, EndsQuietly DEF Rename
    <2>3. CASE Goto("dirSync")
      <3>1. op'.kind = op.kind /\ op'.next = op.next /\ op'.at = "dirSync"
        BY <1>2, <2>3 DEF Goto, OpType
      <3>2. disk'.dirty = {op.next} /\ disk'.stale = disk.stale \cup disk.dirty
        BY <1>2, <1>3, <3>1 DEF Rename, DiskType, OpHolds, StoreInv, ReplacementHolds
      <3>3. Findable' = LogsOf(disk'.dirty \cup disk'.stale)
            /\ Findable = LogsOf(disk.dirty \cup disk.stale)
        BY DEF Findable, LogsOf, AfterPowerLoss
      <3>4. op.next \in Durable!Remains(InFlight)
        BY <1>1 DEF Durable!Remains
      <3>5. Findable' \subseteq Findable \cup Durable!Remains(InFlight)
        BY <1>1, <3>2, <3>3, <3>4 DEF LogsOf
      <3> QED BY <1>1, <2>1, <3>1, <3>5, Progresses
    <2>4. AnswerLocked => op'.at # "dirSync"
      BY DEF AnswerLocked, Answer, NoOp
    <2> QED BY <1>3, <2>2, <2>3, <2>4 DEF Rename, BeforeRename
  <1>4. CASE DirSync
    <2>1. Same /\ UNCHANGED store /\ op'.kind = op.kind /\ op'.next = op.next
      BY <1>2, <1>4 DEF DirSync, Same, OpType
    <2>2. disk'.dirty = disk.dirty /\ disk'.stale \subseteq disk.stale
      BY <1>2, <1>4 DEF DirSync, DiskType
    <2>3. Findable' \subseteq Findable
      BY <2>2 DEF Findable, LogsOf, AfterPowerLoss
    <2> QED BY <1>1, <2>1, <2>3, Progresses
  <1>5. CASE Renamed
    <2>1. op.at = "renamed" /\ UNCHANGED disk
      BY <1>5 DEF Renamed, OpHolds
    <2>2. CASE disk.file = op.next /\ Commit(IF op.confirmed THEN "ready" ELSE "degraded")
      <3>1. disk.dirty = {op.next} /\ (op.confirmed => disk.stale = {})
        BY <2>1, <2>2 DEF StoreInv, FileHolds
      <3>2. CASE op.confirmed
        <4>1. LogsOf(disk.stale) \subseteq told.loose
          BY <3>1, <3>2 DEF LogsOf
        <4> QED BY <1>1, <2>1, <2>2, <3>1, <3>2, <4>1, Acknowledges
      <3>3. CASE ~op.confirmed
        BY <1>1, <2>1, <2>2, <3>1, <3>3, Acknowledges
      <3> QED BY <3>2, <3>3
    <2>3. CASE State("uncertain") /\ AnswerLocked /\ UNCHANGED told
      BY <1>1, <2>1, <2>3, Stops, EndsQuietly DEF Same
    <2> QED BY <1>5, <2>2, <2>3 DEF Renamed
  <1> QED BY <1>3, <1>4, <1>5

\* The store is closed under whatever still waits outside of it.
LEMMA CloseRefines ==
  ASSUME StoreInv, CloseDrained
  PROVE  Abstract
  <1>1. Same /\ UNCHANGED <<disk, op>> /\ State("closed")
    BY DEF CloseDrained, Same
  <1>2. ~Accepting' /\ store'.state # "degraded" /\ InFlight' = InFlight
    BY <1>1, Stops, InFlightStays DEF Accepting
  <1>3. LogsOf(AfterPowerLoss)' = LogsOf(AfterPowerLoss)
    BY <1>1 DEF LogsOf, AfterPowerLoss
  <1>4. CASE op.kind \in {"append", "rewrite", "restore"}
    BY <1>1, <1>2, <1>3, <1>4, Progresses DEF Findable
  <1>5. CASE op.kind \notin {"append", "rewrite", "restore"}
    <2>1. Durable!Halt
      BY <1>1, <1>2, <1>3, <1>5, CallTyped DEF Durable!Halt, Same
    <2> QED BY <2>1 DEF Abstract, Durable!Next
  <1> QED BY <1>4, <1>5

\* The process or the machine stops; another program edits the file.
LEMMA WorldRefines ==
  ASSUME StoreInv, World
  PROVE  Abstract
  <1>1. disk \in DiskType /\ disk.file \in disk.dirty /\ told \in ToldType
    BY Known DEF StoreInv, FileHolds
  <1>2. Findable' = LogsOf(disk'.dirty \cup disk'.stale)
        /\ Findable = LogsOf(disk.dirty \cup disk.stale)
    BY DEF Findable, LogsOf, AfterPowerLoss
  <1>3. CASE Restart \/ PowerLoss
    <2>1. Boot /\ UNCHANGED told
      BY <1>3 DEF Restart, PowerLoss
    <2>2. InFlight' = NoContent /\ ~Accepting' /\ store'.state # "degraded"
      BY <2>1 DEF Boot, InFlight, NoOp, Accepting
    <2>3. PICK c \in disk'.dirty \cup disk'.stale : c \in disk.dirty \cup disk.stale
      BY <1>1, <1>3 DEF Restart, PowerLoss, AfterPowerLoss, DiskType
    <2>4. disk'.dirty \cup disk'.stale \subseteq disk.dirty \cup disk.stale
      <3>1. ASSUME NEW f \in AfterPowerLoss,
                   disk' = [disk EXCEPT !.file = f, !.dirty = {f}, !.stale = {}]
            PROVE  disk'.dirty = {f} /\ disk'.stale = {}
        BY <1>1, <3>1 DEF DiskType
      <3>2. CASE PowerLoss
        BY <3>1, <3>2 DEF PowerLoss, AfterPowerLoss
      <3>3. CASE Restart
        BY <3>3 DEF Restart
      <3> QED BY <1>3, <3>2, <3>3
    <2>5. Findable' # {} /\ Findable' \subseteq Findable
      BY <1>2, <2>3, <2>4 DEF LogsOf
    <2>6. Durable!Crash
      BY <2>1, <2>2, <2>5 DEF Durable!Crash, Findable
    <2> QED BY <2>6 DEF Abstract, Durable!Next
  <1>4. CASE Edit
    <2>1. told'.edited = TRUE /\ told'.log = told.log /\ told'.loose = told.loose
      BY <1>1, <1>4 DEF Edit, ToldType
    <2>2. InFlight' = InFlight /\ Accepting' = Accepting /\ store' = store
      BY <1>4, InFlightStays DEF Edit, Accepting
    <2>3. Durable!Edit
      BY <2>1, <2>2 DEF Durable!Edit
    <2> QED BY <2>3 DEF Abstract, Durable!Next
  <1> QED BY <1>3, <1>4 DEF World

\* The first state is one of DurableLog.
LEMMA InitRefines ==
  ASSUME Init
  PROVE  Durable!Init
  <1>1. Complete(<<>>) = <<>>
    BY DEF Complete, IsTorn
  <1>2. LogsOf(AfterPowerLoss) = {<<>>}
    BY <1>1 DEF Init, LogsOf, AfterPowerLoss
  <1>3. InFlight = NoContent /\ ~Accepting /\ store.state # "degraded"
    BY DEF Init, InFlight, NoOp, Accepting
  <1> QED BY <1>2, <1>3 DEF Init, Durable!Init

\* Every step is one of DurableLog, or one that it does not see.
LEMMA NextRefines == StoreInv /\ StoreInv' /\ [Next]_vars => [Durable!Next]_(Durable!vars)
  <1> SUFFICES ASSUME StoreInv, StoreInv', [Next]_vars PROVE Abstract
    BY DEF Abstract
  <1>1. CASE Clients
    BY <1>1, AsideRefines DEF Clients
  <1>2. CASE StoreStep
    <2>1. CASE Baseline \/ RestoreBaseline \/ TempWrite \/ TempSync \/ Recheck \/ Open
      BY <2>1, PrepareRefines, ReopenRefines
    <2>2. CASE AppendWrite \/ AppendSync \/ AppendVerify \/ AppendFailed \/ Truncate \/ RollbackSync
      BY <2>2, AppendRefines, AppendEndRefines, RollbackRefines
    <2>3. CASE Rename \/ DirSync \/ Renamed
      BY <2>3, ReplaceRefines
    <2> QED BY <1>2, <2>1, <2>2, <2>3 DEF StoreStep
  <1>3. CASE ProviderStep
    BY <1>3, BeginRefines, EnsureRefines, ReopenRefines DEF ProviderStep
  <1>4. CASE BackupStep
    BY <1>4, AsideRefines
  <1>5. CASE CloseStep
    BY <1>5, AsideRefines, CloseRefines DEF CloseStep
  <1>6. CASE World
    BY <1>6, WorldRefines
  <1>7. CASE UNCHANGED vars
    <2>1. UNCHANGED <<disk, store, op, told>>
      BY <1>7 DEF vars
    <2> QED BY <2>1, Unseen DEF Same
  <1> QED BY <1>1, <1>2, <1>3, <1>4, <1>5, <1>6, <1>7 DEF Next

\* The provider, its store, the backups and the restores keep what DurableLog promises,
\* whatever fails and whenever the process or the machine stops.
THEOREM StoreKeepsTheLog == Spec => ImplementsDurableLog
  <1> QED BY InitRefines, NextRefines, StoreIsSound, PTL
          DEF Spec, ImplementsDurableLog, Durable!Spec
=============================================================================
