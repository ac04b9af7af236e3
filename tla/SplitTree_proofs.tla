----------------------------- MODULE SplitTree_proofs -----------------------------
(***************************************************************************)
(* What SplitTree promises, for every number of panes, every size and every*)
(* depth of the tree.                                                      *)
(***************************************************************************)
EXTENDS SplitTree, SequenceTheorems, FiniteSetTheorems, WellFoundedInduction, TLAPS

Path == Seq({1, 2})

-------------------------------------------------------------------------------
\* Paths: a path is its length and its elements.

LEMMA PathIs ==
    ASSUME NEW p \in Path
    PROVE  /\ Len(p) \in Nat
           /\ DOMAIN p = 1..Len(p)
           /\ \A i \in 1..Len(p) : p[i] \in {1, 2}
           /\ p = <<>> <=> Len(p) = 0
    BY DEF Path

LEMMA PathEqual ==
    ASSUME NEW p \in Path, NEW q \in Path, Len(p) = Len(q), \A i \in 1..Len(p) : p[i] = q[i]
    PROVE  p = q
    BY SeqEqual DEF Path

LEMMA RootPath == <<>> \in Path /\ Len(<<>>) = 0
    BY DEF Path

LEMMA DonePath == Done \notin Path
    BY DEF Path, Done

LEMMA ChildPath ==
    ASSUME NEW p \in Path, NEW s \in {1, 2}
    PROVE  /\ Append(p, s) \in Path
           /\ Append(p, s) # <<>>
           /\ Len(Append(p, s)) = Len(p) + 1
           /\ \A i \in 1..Len(p) : Append(p, s)[i] = p[i]
           /\ Append(p, s)[Len(p) + 1] = s
           /\ Last(Append(p, s)) = s
           /\ Front(Append(p, s)) = p
<1>1. /\ Append(p, s) \in Path
      /\ Append(p, s) # <<>>
      /\ Len(Append(p, s)) = Len(p) + 1
      /\ \A i \in 1..Len(p) : Append(p, s)[i] = p[i]
      /\ Append(p, s)[Len(p) + 1] = s
    BY AppendProperties DEF Path
<1>2. Last(Append(p, s)) = s
    BY <1>1 DEF Last
<1>3. Front(Append(p, s)) = p
    BY DEF Front, Path
<1>4. QED
    BY <1>1, <1>2, <1>3

LEMMA ParentPath ==
    ASSUME NEW p \in Path, p # <<>>
    PROVE  /\ Front(p) \in Path
           /\ Len(p) = Len(Front(p)) + 1
           /\ \A i \in 1..Len(Front(p)) : Front(p)[i] = p[i]
           /\ Last(p) \in {1, 2}
           /\ Last(p) = p[Len(p)]
           /\ p = Append(Front(p), Last(p))
<1>1. PICK r \in Path, s \in {1, 2} : p = Append(r, s)
    BY SequenceEmptyOrAppend DEF Path
<1>2. Front(p) = r /\ Last(p) = s /\ Len(p) = Len(r) + 1
    BY <1>1, ChildPath
<1>3. \A i \in 1..Len(r) : r[i] = p[i]
    BY <1>1, ChildPath
<1>4. p[Len(p)] = s
    BY <1>1, <1>2, ChildPath
<1>5. QED
    BY <1>1, <1>2, <1>3, <1>4

LEMMA PartPath ==
    ASSUME NEW p \in Path, NEW n \in 0..Len(p)
    PROVE  /\ SubSeq(p, 1, n) \in Path
           /\ Len(SubSeq(p, 1, n)) = n
           /\ \A i \in 1..n : SubSeq(p, 1, n)[i] = p[i]
<1>1. Len(p) \in Nat /\ \A i \in 1..Len(p) : p[i] \in {1, 2}
    BY PathIs
<1>2. n \in Int /\ \A i \in 1..n : p[i] \in {1, 2}
    BY <1>1
<1>3. QED
    BY <1>2, SubSeqProperties DEF Path

LEMMA PrefixIs ==
    ASSUME NEW p \in Path, NEW q \in Path
    PROVE  IsPrefix(p, q) <=> Len(p) <= Len(q) /\ \A i \in 1..Len(p) : p[i] = q[i]
<1>1. Len(p) \in Nat /\ Len(q) \in Nat
    BY PathIs
<1>2. SubSeq(p, 1, Len(p)) = p
    BY SubSeqFull DEF Path
<1>3. CASE Len(p) <= Len(q)
    <2>1. /\ SubSeq(q, 1, Len(p)) \in Path
          /\ Len(SubSeq(q, 1, Len(p))) = Len(p)
          /\ \A i \in 1..Len(p) : SubSeq(q, 1, Len(p))[i] = q[i]
        BY <1>1, <1>3, PartPath
    <2>2. IsPrefix(p, q) <=> p = SubSeq(q, 1, Len(p))
        BY <1>2, <1>3 DEF IsPrefix
    <2>3. p = SubSeq(q, 1, Len(p)) <=> \A i \in 1..Len(p) : p[i] = q[i]
        BY <2>1, PathEqual
    <2>4. QED
        BY <2>2, <2>3, <1>3
<1>4. CASE ~(Len(p) <= Len(q))
    BY <1>4 DEF IsPrefix
<1>5. QED
    BY <1>3, <1>4

LEMMA RebasedPath ==
    ASSUME NEW q \in Path, NEW from \in Path, NEW to \in Path, IsPrefix(from, q)
    PROVE  /\ Rebased(q, from, to) \in Path
           /\ Len(Rebased(q, from, to)) = Len(q) - Len(from) + Len(to)
           /\ \A i \in 1..Len(to) : Rebased(q, from, to)[i] = to[i]
           /\ \A i \in Len(to) + 1..Len(Rebased(q, from, to)) :
                Rebased(q, from, to)[i] = q[i - Len(to) + Len(from)]
           /\ IsPrefix(to, Rebased(q, from, to))
<1>. DEFINE rest == SubSeq(q, Len(from) + 1, Len(q))
<1>1. Len(q) \in Nat /\ Len(from) \in Nat /\ Len(to) \in Nat /\ Len(from) <= Len(q)
    BY PathIs, PrefixIs
<1>2. \A i \in Len(from) + 1..Len(q) : q[i] \in {1, 2}
    BY <1>1, PathIs
<1>3. /\ rest \in Path
      /\ Len(rest) = Len(q) - Len(from)
      /\ \A i \in 1..Len(rest) : rest[i] = q[Len(from) + i]
    BY <1>1, <1>2, SubSeqProperties DEF Path
<1>4. /\ to \o rest \in Path
      /\ Len(to \o rest) = Len(to) + Len(rest)
      /\ \A i \in 1..Len(to) + Len(rest) :
            (to \o rest)[i] = IF i <= Len(to) THEN to[i] ELSE rest[i - Len(to)]
  <2>. HIDE DEF rest
  <2>. QED
    BY <1>3, ConcatProperties DEF Path
<1>5. Rebased(q, from, to) = to \o rest
    BY DEF Rebased
<1>. HIDE DEF rest
<1>6. \A i \in 1..Len(to) : (to \o rest)[i] = to[i]
    BY <1>1, <1>3, <1>4
<1>7. ASSUME NEW i \in Len(to) + 1..Len(to) + Len(rest)
      PROVE  (to \o rest)[i] = q[i - Len(to) + Len(from)]
    <2>1. i - Len(to) \in 1..Len(rest) /\ i \in 1..Len(to) + Len(rest) /\ ~(i <= Len(to))
        BY <1>1, <1>3
    <2>2. QED
        BY <2>1, <1>1, <1>3, <1>4
<1>8. IsPrefix(to, to \o rest)
    <2>1. Len(to) <= Len(to \o rest)
        BY <1>1, <1>3, <1>4
    <2>2. QED
        BY <2>1, <1>4, <1>6, PrefixIs
<1>9. QED
    BY <1>1, <1>3, <1>4, <1>5, <1>6, <1>7, <1>8

-------------------------------------------------------------------------------
\* Going down and up one level: what is at and below the position `at' moves to
\* its child on `side', and back.

Down(at, side, q) == IF IsPrefix(at, q) THEN Rebased(q, at, Append(at, side)) ELSE q
Up(at, side, q) ==
    IF IsPrefix(Append(at, side), q) THEN Rebased(q, Append(at, side), at) ELSE q

LEMMA DownIs ==
    ASSUME NEW at \in Path, NEW side \in {1, 2}, NEW q \in Path
    PROVE  /\ Down(at, side, q) \in Path
           /\ ~IsPrefix(at, q) => Down(at, side, q) = q
           /\ IsPrefix(at, q) =>
                /\ Len(Down(at, side, q)) = Len(q) + 1
                /\ \A i \in 1..Len(at) : Down(at, side, q)[i] = q[i]
                /\ Down(at, side, q)[Len(at) + 1] = side
                /\ \A i \in Len(at) + 1..Len(q) : Down(at, side, q)[i + 1] = q[i]
                /\ IsPrefix(at, Down(at, side, q))
                /\ IsPrefix(Append(at, side), Down(at, side, q))
<1>1. CASE ~IsPrefix(at, q)
    BY <1>1 DEF Down
<1>2. CASE IsPrefix(at, q)
    <2>. DEFINE below == Append(at, side)
                d == Rebased(q, at, below)
    <2>1. /\ below \in Path
          /\ Len(below) = Len(at) + 1
          /\ \A i \in 1..Len(at) : below[i] = at[i]
          /\ below[Len(at) + 1] = side
        BY ChildPath
    <2>2. /\ Len(at) <= Len(q)
          /\ \A i \in 1..Len(at) : at[i] = q[i]
          /\ Len(at) \in Nat /\ Len(q) \in Nat
        BY <1>2, PrefixIs, PathIs
    <2>. HIDE DEF below
    <2>3. /\ d \in Path
          /\ Len(d) = Len(q) - Len(at) + Len(below)
          /\ \A i \in 1..Len(below) : d[i] = below[i]
          /\ \A i \in Len(below) + 1..Len(d) : d[i] = q[i - Len(below) + Len(at)]
          /\ IsPrefix(below, d)
        BY <1>2, <2>1, RebasedPath
    <2>. HIDE DEF d
    <2>4. Len(d) = Len(q) + 1
        BY <2>1, <2>2, <2>3
    <2>5. \A i \in 1..Len(at) : d[i] = q[i]
        BY <2>1, <2>2, <2>3
    <2>6. d[Len(at) + 1] = side
        BY <2>1, <2>2, <2>3
    <2>7. ASSUME NEW i \in Len(at) + 1..Len(q) PROVE d[i + 1] = q[i]
        <3>1. i + 1 \in Len(below) + 1..Len(d) /\ i + 1 - Len(below) + Len(at) = i
            BY <2>1, <2>2, <2>4
        <3>2. QED
            BY <3>1, <2>3
    <2>8. IsPrefix(at, d)
        BY <2>2, <2>3, <2>4, <2>5, PrefixIs
    <2>9. Down(at, side, q) = d
        BY <1>2 DEF Down, below, d
    <2>10. QED
        BY <1>2, <2>3, <2>4, <2>5, <2>6, <2>7, <2>8, <2>9 DEF below
<1>3. QED
    BY <1>1, <1>2

LEMMA DownBelow ==
    ASSUME NEW at \in Path, NEW side \in {1, 2}, NEW q \in Path, IsPrefix(at, q), NEW d, d = Down(at, side, q)
    PROVE  /\ d \in Path
           /\ Len(d) = Len(q) + 1
           /\ \A i \in 1..Len(at) : d[i] = q[i]
           /\ d[Len(at) + 1] = side
           /\ \A i \in Len(at) + 1..Len(q) : d[i + 1] = q[i]
           /\ IsPrefix(at, d)
           /\ IsPrefix(Append(at, side), d)
<1>1. /\ d \in Path
      /\ Len(d) = Len(q) + 1
      /\ IsPrefix(at, d)
      /\ IsPrefix(Append(at, side), d)
      /\ d[Len(at) + 1] = side
    BY DownIs
<1>2. \A i \in 1..Len(at) : Down(at, side, q)[i] = q[i]
    BY DownIs, Zenon
<1>3. \A i \in Len(at) + 1..Len(q) : Down(at, side, q)[i + 1] = q[i]
    BY DownIs, Zenon
<1>4. QED
    BY <1>1, <1>2, <1>3

LEMMA UpIs ==
    ASSUME NEW at \in Path, NEW side \in {1, 2}, NEW q \in Path
    PROVE  /\ Up(at, side, q) \in Path
           /\ ~IsPrefix(Append(at, side), q) => Up(at, side, q) = q
           /\ IsPrefix(Append(at, side), q) =>
                /\ Len(Up(at, side, q)) = Len(q) - 1
                /\ Len(Up(at, side, q)) >= Len(at)
                /\ \A i \in 1..Len(at) : Up(at, side, q)[i] = q[i]
                /\ \A i \in Len(at) + 1..Len(q) - 1 : Up(at, side, q)[i] = q[i + 1]
                /\ IsPrefix(at, Up(at, side, q))
                /\ q[Len(at) + 1] = side
<1>1. CASE ~IsPrefix(Append(at, side), q)
    BY <1>1 DEF Up
<1>2. CASE IsPrefix(Append(at, side), q)
    <2>. DEFINE below == Append(at, side)
                d == Rebased(q, below, at)
    <2>1. /\ below \in Path
          /\ Len(below) = Len(at) + 1
          /\ \A i \in 1..Len(at) : below[i] = at[i]
          /\ below[Len(at) + 1] = side
        BY ChildPath
    <2>. HIDE DEF below
    <2>2. /\ Len(below) <= Len(q)
          /\ \A i \in 1..Len(below) : below[i] = q[i]
          /\ Len(at) \in Nat /\ Len(q) \in Nat
        BY <1>2, <2>1, PrefixIs, PathIs DEF below
    <2>3. /\ d \in Path
          /\ Len(d) = Len(q) - Len(below) + Len(at)
          /\ \A i \in 1..Len(at) : d[i] = at[i]
          /\ \A i \in Len(at) + 1..Len(d) : d[i] = q[i - Len(at) + Len(below)]
          /\ IsPrefix(at, d)
        BY <1>2, <2>1, RebasedPath DEF below
    <2>. HIDE DEF d
    <2>4. Len(d) = Len(q) - 1 /\ Len(d) >= Len(at)
        BY <2>1, <2>2, <2>3
    <2>5. \A i \in 1..Len(at) : d[i] = q[i]
        BY <2>1, <2>2, <2>3
    <2>6. q[Len(at) + 1] = side
        BY <2>1, <2>2
    <2>7. ASSUME NEW i \in Len(at) + 1..Len(q) - 1 PROVE d[i] = q[i + 1]
        <3>1. i \in Len(at) + 1..Len(d) /\ i - Len(at) + Len(below) = i + 1
            BY <2>1, <2>2, <2>4
        <3>2. QED
            BY <3>1, <2>3
    <2>9. Up(at, side, q) = d
        BY <1>2 DEF Up, below, d
    <2>10. QED
        BY <1>2, <2>3, <2>4, <2>5, <2>6, <2>7, <2>9
<1>3. QED
    BY <1>1, <1>2

\* What is at or below `at', but not `at' itself, is on one side.
LEMMA BelowOneSide ==
    ASSUME NEW at \in Path, NEW side \in {1, 2}, NEW q \in Path
    PROVE  IsPrefix(Append(at, side), q) <=>
             IsPrefix(at, q) /\ Len(q) > Len(at) /\ q[Len(at) + 1] = side
<1>1. /\ Append(at, side) \in Path
      /\ Len(Append(at, side)) = Len(at) + 1
      /\ \A i \in 1..Len(at) : Append(at, side)[i] = at[i]
      /\ Append(at, side)[Len(at) + 1] = side
    BY ChildPath
<1>2. Len(at) \in Nat /\ Len(q) \in Nat
    BY PathIs
<1>3. IsPrefix(Append(at, side), q) <=>
        Len(at) + 1 <= Len(q) /\ \A i \in 1..Len(at) + 1 : Append(at, side)[i] = q[i]
    BY <1>1, PrefixIs
<1>4. IsPrefix(at, q) <=> Len(at) <= Len(q) /\ \A i \in 1..Len(at) : at[i] = q[i]
    BY PrefixIs
<1>5. (\A i \in 1..Len(at) + 1 : Append(at, side)[i] = q[i]) <=>
        (\A i \in 1..Len(at) : at[i] = q[i]) /\ q[Len(at) + 1] = side
    BY <1>1, <1>2
<1>6. QED
    BY <1>2, <1>3, <1>4, <1>5

LEMMA UpOfDown ==
    ASSUME NEW at \in Path, NEW side \in {1, 2}, NEW q \in Path
    PROVE  Up(at, side, Down(at, side, q)) = q
<1>. DEFINE d == Down(at, side, q)
            u == Up(at, side, d)
<1>1. d \in Path /\ Len(at) \in Nat /\ Len(q) \in Nat
    BY DownIs, PathIs
<1>2. CASE ~IsPrefix(at, q)
    <2>1. d = q
        BY <1>2, DownIs
    <2>2. ~IsPrefix(Append(at, side), q)
        BY <1>2, BelowOneSide
    <2>3. QED
        BY <2>1, <2>2, UpIs
<1>3. CASE IsPrefix(at, q)
    <2>1. /\ Len(d) = Len(q) + 1
          /\ \A i \in 1..Len(at) : d[i] = q[i]
          /\ \A i \in Len(at) + 1..Len(q) : d[i + 1] = q[i]
          /\ IsPrefix(Append(at, side), d)
        BY <1>3, DownIs
    <2>. HIDE DEF d
    <2>2. /\ u \in Path
          /\ Len(u) = Len(d) - 1
          /\ \A i \in 1..Len(at) : u[i] = d[i]
          /\ \A i \in Len(at) + 1..Len(d) - 1 : u[i] = d[i + 1]
        BY <1>1, <2>1, UpIs
    <2>. HIDE DEF u
    <2>3. Len(u) = Len(q) /\ \A i \in 1..Len(q) : u[i] = q[i]
        BY <1>1, <2>1, <2>2
    <2>4. u = q
        BY <2>2, <2>3, PathEqual
    <2>5. QED
        BY <2>4 DEF u, d
<1>4. QED
    BY <1>2, <1>3

LEMMA DownOfUp ==
    ASSUME NEW at \in Path, NEW side \in {1, 2}, NEW q \in Path,
           ~IsPrefix(at, q) \/ IsPrefix(Append(at, side), q)
    PROVE  Down(at, side, Up(at, side, q)) = q
<1>. DEFINE u == Up(at, side, q)
            d == Down(at, side, u)
<1>1. u \in Path /\ Len(at) \in Nat /\ Len(q) \in Nat
    BY UpIs, PathIs
<1>2. CASE ~IsPrefix(at, q)
    <2>1. ~IsPrefix(Append(at, side), q)
        BY <1>2, BelowOneSide
    <2>2. u = q
        BY <2>1, UpIs
    <2>3. QED
        BY <2>2, <1>2, DownIs
<1>3. CASE IsPrefix(Append(at, side), q)
    <2>1. /\ Len(u) = Len(q) - 1
          /\ Len(u) >= Len(at)
          /\ \A i \in 1..Len(at) : u[i] = q[i]
          /\ \A i \in Len(at) + 1..Len(q) - 1 : u[i] = q[i + 1]
          /\ IsPrefix(at, u)
          /\ q[Len(at) + 1] = side
        BY <1>3, UpIs
    <2>. HIDE DEF u
    <2>2. /\ d \in Path
          /\ Len(d) = Len(u) + 1
          /\ \A i \in 1..Len(at) : d[i] = u[i]
          /\ d[Len(at) + 1] = side
          /\ \A i \in Len(at) + 1..Len(u) : d[i + 1] = u[i]
        <3>1. u \in Path /\ IsPrefix(at, u) /\ d = Down(at, side, u)
            BY <1>1, <2>1
        <3>. HIDE DEF d
        <3>2. QED
            BY <3>1, DownBelow
    <2>. HIDE DEF d
    <2>3. ASSUME NEW i \in 1..Len(q) PROVE d[i] = q[i]
        <3>1. CASE i <= Len(at)
            BY <3>1, <1>1, <2>1, <2>2
        <3>2. CASE i = Len(at) + 1
            BY <3>2, <1>1, <2>1, <2>2
        <3>3. CASE i > Len(at) + 1
            <4>1. i - 1 \in Len(at) + 1..Len(u) /\ i - 1 \in Len(at) + 1..Len(q) - 1 /\ i - 1 + 1 = i
                BY <3>3, <1>1, <2>1
            <4>2. QED
                BY <4>1, <2>1, <2>2
        <3>4. QED
            BY <3>1, <3>2, <3>3, <1>1
    <2>4. d = q
        BY <1>1, <2>1, <2>2, <2>3, PathEqual
    <2>5. QED
        BY <2>4 DEF u, d
<1>4. QED
    BY <1>2, <1>3

\* Going down leaves the other child, and everything below it, free.
LEMMA DownAvoids ==
    ASSUME NEW at \in Path, NEW side \in {1, 2}, NEW q \in Path
    PROVE  /\ ~IsPrefix(Append(at, 3 - side), Down(at, side, q))
           /\ Down(at, side, q) # Append(at, 3 - side)
           /\ Down(at, side, q) # at
<1>. DEFINE d == Down(at, side, q)
<1>0. 3 - side \in {1, 2} /\ 3 - side # side
    OBVIOUS
<1>1. d \in Path /\ Len(at) \in Nat /\ Len(d) \in Nat /\ 3 - side \in {1, 2} /\ 3 - side # side
    BY <1>0, DownIs, PathIs
<1>2. Len(Append(at, 3 - side)) = Len(at) + 1 /\ Append(at, 3 - side) \in Path
    BY <1>1, ChildPath
<1>3. IsPrefix(Append(at, 3 - side), d) <=>
        IsPrefix(at, d) /\ Len(d) > Len(at) /\ d[Len(at) + 1] = 3 - side
    BY <1>1, BelowOneSide
<1>4. IsPrefix(at, at) /\ IsPrefix(Append(at, 3 - side), Append(at, 3 - side))
    BY <1>1, <1>2, PrefixIs
<1>5. CASE ~IsPrefix(at, q)
    <2>1. d = q
        BY <1>5, DownIs
    <2>2. IsPrefix(at, Append(at, 3 - side))
        BY <1>1, <1>2, <1>4, BelowOneSide
    <2>3. QED
        BY <2>1, <2>2, <1>3, <1>4, <1>5
<1>6. CASE IsPrefix(at, q)
    <2>1. d[Len(at) + 1] = side /\ Len(d) = Len(q) + 1 /\ Len(q) >= Len(at)
        BY <1>6, DownIs, PrefixIs
    <2>2. Len(q) \in Nat
        BY PathIs
    <2>. HIDE DEF d
    <2>3. ~IsPrefix(Append(at, 3 - side), d) /\ d # at
        BY <1>1, <1>3, <2>1, <2>2
    <2>4. d # Append(at, 3 - side)
        BY <2>3, <1>4
    <2>5. QED
        BY <2>3, <2>4 DEF d
<1>7. QED
    BY <1>5, <1>6

\* A child goes down with its parent, unless it is `at' itself.
LEMMA DownOfChild ==
    ASSUME NEW at \in Path, NEW side \in {1, 2}, NEW q \in Path, NEW s \in {1, 2}
    PROVE  Append(q, s) # at => Down(at, side, Append(q, s)) = Append(Down(at, side, q), s)
<1>. DEFINE c == Append(q, s)
            d == Down(at, side, q)
            e == Down(at, side, c)
<1>1. /\ c \in Path
      /\ Len(c) = Len(q) + 1
      /\ \A i \in 1..Len(q) : c[i] = q[i]
      /\ c[Len(q) + 1] = s
    BY ChildPath
<1>2. d \in Path /\ Len(at) \in Nat /\ Len(q) \in Nat
    BY DownIs, PathIs
<1>3. /\ Append(d, s) \in Path
      /\ Len(Append(d, s)) = Len(d) + 1
      /\ \A i \in 1..Len(d) : Append(d, s)[i] = d[i]
      /\ Append(d, s)[Len(d) + 1] = s
  <2>. HIDE DEF d
  <2>. QED
    BY <1>2, ChildPath
<1>. HIDE DEF c
<1>4. CASE ~IsPrefix(at, q)
    <2>1. IsPrefix(at, c) => Len(at) = Len(c)
        BY <1>1, <1>2, <1>4, PrefixIs
    <2>2. IsPrefix(at, c) => c = at
        BY <1>1, <2>1, PrefixIs, PathEqual
    <2>3. c # at => e = c
        BY <2>2, <1>1, DownIs
    <2>4. d = q
        BY <1>4, DownIs
    <2>5. QED
        BY <2>3, <2>4 DEF c
<1>5. CASE IsPrefix(at, q)
    <2>1. Len(at) <= Len(q) /\ \A i \in 1..Len(at) : at[i] = q[i]
        BY <1>5, PrefixIs
    <2>2. IsPrefix(at, c)
        BY <1>1, <1>2, <2>1, PrefixIs
    <2>3. /\ Len(d) = Len(q) + 1
          /\ \A i \in 1..Len(at) : d[i] = q[i]
          /\ d[Len(at) + 1] = side
          /\ \A i \in Len(at) + 1..Len(q) : d[i + 1] = q[i]
        BY <1>5, DownIs
    <2>4. /\ e \in Path
          /\ Len(e) = Len(c) + 1
          /\ \A i \in 1..Len(at) : e[i] = c[i]
          /\ e[Len(at) + 1] = side
          /\ \A i \in Len(at) + 1..Len(c) : e[i + 1] = c[i]
        BY <1>1, <2>2, DownBelow
    <2>. HIDE DEF d, e
    <2>5. ASSUME NEW i \in 1..Len(e) PROVE e[i] = Append(d, s)[i]
        <3>1. CASE i <= Len(at)
            BY <3>1, <1>1, <1>2, <1>3, <2>1, <2>3, <2>4
        <3>2. CASE i = Len(at) + 1
            BY <3>2, <1>1, <1>2, <1>3, <2>1, <2>3, <2>4
        <3>3. CASE i > Len(at) + 1
            <4>1. i - 1 \in Len(at) + 1..Len(c) /\ i - 1 + 1 = i
                BY <3>3, <1>1, <1>2, <2>4
            <4>2. e[i] = c[i - 1]
                BY <4>1, <2>4
            <4>3. CASE i = Len(e)
                BY <4>2, <4>3, <1>1, <1>2, <1>3, <2>3, <2>4
            <4>4. CASE i # Len(e)
                <5>1. i - 1 \in Len(at) + 1..Len(q) /\ i \in 1..Len(d) /\ i - 1 \in 1..Len(q)
                    BY <3>3, <4>4, <1>1, <1>2, <2>1, <2>3, <2>4
                <5>2. d[i] = q[i - 1]
                    BY <5>1, <4>1, <2>3
                <5>3. QED
                    BY <4>2, <5>1, <5>2, <1>1, <1>3
            <4>5. QED
                BY <4>3, <4>4
        <3>4. QED
            <4>1. i \in Int /\ Len(at) \in Int
                BY <1>1, <1>2, <2>4
            <4>2. i <= Len(at) \/ i = Len(at) + 1 \/ i > Len(at) + 1
                BY <4>1
            <4>3. QED
                BY <4>2, <3>1, <3>2, <3>3
    <2>6. e = Append(d, s)
        BY <1>1, <1>3, <2>3, <2>4, <2>5, PathEqual
    <2>7. QED
        BY <2>6 DEF c, e, d
<1>6. QED
    BY <1>4, <1>5

-------------------------------------------------------------------------------
\* The order of the leaves.

PartsAt(p, q, i) ==
    /\ i \in 1..Len(p) /\ i \in 1..Len(q)
    /\ p[i] < q[i]
    /\ \A k \in 1..i - 1 : p[k] = q[k]

LEMMA PrecedesIs ==
    ASSUME NEW p \in Path, NEW q \in Path
    PROVE  Precedes(p, q) <=> \E i : PartsAt(p, q, i)
<1>1. Len(p) \in Nat /\ Len(q) \in Nat /\ DOMAIN p = 1..Len(p) /\ DOMAIN q = 1..Len(q)
    BY PathIs
<1>2. ASSUME NEW i, i \in 1..Len(p), i \in 1..Len(q)
      PROVE  SubSeq(p, 1, i - 1) = SubSeq(q, 1, i - 1) <=> \A k \in 1..i - 1 : p[k] = q[k]
    <2>1. i - 1 \in 0..Len(p) /\ i - 1 \in 0..Len(q)
        BY <1>1, <1>2
    <2>2. /\ SubSeq(p, 1, i - 1) \in Path
          /\ Len(SubSeq(p, 1, i - 1)) = i - 1
          /\ \A k \in 1..i - 1 : SubSeq(p, 1, i - 1)[k] = p[k]
        BY <2>1, PartPath
    <2>3. /\ SubSeq(q, 1, i - 1) \in Path
          /\ Len(SubSeq(q, 1, i - 1)) = i - 1
          /\ \A k \in 1..i - 1 : SubSeq(q, 1, i - 1)[k] = q[k]
        BY <2>1, PartPath
    <2>4. QED
        BY <2>2, <2>3, PathEqual
<1>3. QED
    BY <1>1, <1>2 DEF Precedes, PartsAt

LEMMA PrecedesIrreflexive ==
    ASSUME NEW p \in Path
    PROVE  ~Precedes(p, p)
<1>1. \A i \in 1..Len(p) : p[i] \in Int
    BY PathIs
<1>2. QED
    BY <1>1, PrecedesIs DEF PartsAt

LEMMA PrecedesTransitive ==
    ASSUME NEW p \in Path, NEW q \in Path, NEW r \in Path, Precedes(p, q), Precedes(q, r)
    PROVE  Precedes(p, r)
<1>1. PICK i : PartsAt(p, q, i)
    BY PrecedesIs
<1>2. PICK j : PartsAt(q, r, j)
    BY PrecedesIs
<1>3. /\ \A k \in 1..Len(p) : p[k] \in Int
      /\ \A k \in 1..Len(q) : q[k] \in Int
      /\ \A k \in 1..Len(r) : r[k] \in Int
      /\ Len(p) \in Nat /\ Len(q) \in Nat /\ Len(r) \in Nat
    BY PathIs
<1>4. CASE i <= j
    <2>1. PartsAt(p, r, i)
        BY <1>1, <1>2, <1>3, <1>4 DEF PartsAt
    <2>2. QED
        BY <2>1, PrecedesIs
<1>5. CASE j < i
    <2>1. PartsAt(p, r, j)
        BY <1>1, <1>2, <1>3, <1>5 DEF PartsAt
    <2>2. QED
        BY <2>1, PrecedesIs
<1>6. QED
    BY <1>1, <1>2, <1>3, <1>4, <1>5 DEF PartsAt

\* Two positions are in order unless one is above the other.
LEMMA PrecedesTotal ==
    ASSUME NEW p \in Path, NEW q \in Path, ~IsPrefix(p, q), ~IsPrefix(q, p)
    PROVE  Precedes(p, q) \/ Precedes(q, p)
<1>1. /\ \A k \in 1..Len(p) : p[k] \in {1, 2}
      /\ \A k \in 1..Len(q) : q[k] \in {1, 2}
      /\ Len(p) \in Nat /\ Len(q) \in Nat
    BY PathIs
<1>. DEFINE other == {i \in Nat : i \in 1..Len(p) /\ i \in 1..Len(q) /\ p[i] # q[i]}
            less == {ss \in Nat \X Nat : ss[1] < ss[2]}
<1>2. other # {}
    <2>1. CASE Len(p) <= Len(q)
        BY <2>1, <1>1, PrefixIs
    <2>2. CASE Len(q) <= Len(p)
        BY <2>2, <1>1, PrefixIs
    <2>3. QED
        BY <2>1, <2>2, <1>1
<1>3. IsWellFoundedOn(less, Nat)
    BY NatLessThanWellFounded, Zenon DEF OpToRel
<1>4. other \subseteq Nat
    OBVIOUS
<1>5. PICK i \in other : \A j \in other : ~ (<<j, i>> \in less)
  <2>. HIDE DEF less, other
  <2>. QED
    BY <1>2, <1>3, <1>4, WFMin, Zenon
<1>6. \A k \in 1..i - 1 : p[k] = q[k]
    <2>1. SUFFICES ASSUME NEW k \in 1..i - 1, p[k] # q[k] PROVE FALSE
        OBVIOUS
    <2>2. k \in other /\ k < i /\ k \in Nat /\ i \in Nat
        BY <2>1, <1>1
    <2>3. <<k, i>> \in less
        BY <2>2
    <2>4. QED
        BY <2>2, <2>3, <1>5
<1>7. p[i] < q[i] \/ q[i] < p[i]
    BY <1>1
<1>8. PartsAt(p, q, i) \/ PartsAt(q, p, i)
    BY <1>6, <1>7 DEF PartsAt
<1>9. QED
    BY <1>8, PrecedesIs

\* Positions keep their order when they go down.
LEMMA DownKeepsOrder ==
    ASSUME NEW at \in Path, NEW side \in {1, 2}, NEW q \in Path, NEW r \in Path
    PROVE  Precedes(Down(at, side, q), Down(at, side, r)) <=> Precedes(q, r)
<1>. DEFINE n == Len(at)
            d == Down(at, side, q)
            e == Down(at, side, r)
<1>1. /\ d \in Path /\ e \in Path /\ n \in Nat
      /\ Len(q) \in Nat /\ Len(r) \in Nat
      /\ side \in Int
  <2>1. d \in Path /\ e \in Path
    BY DownIs
  <2>2. n \in Nat /\ Len(q) \in Nat /\ Len(r) \in Nat
    BY PathIs
  <2>3. QED
    BY <2>1, <2>2
<1>2. IsPrefix(at, q) <=> n <= Len(q) /\ \A i \in 1..n : at[i] = q[i]
    BY PrefixIs
<1>3. IsPrefix(at, r) <=> n <= Len(r) /\ \A i \in 1..n : at[i] = r[i]
    BY PrefixIs
<1>4. IsPrefix(at, q) =>
        /\ Len(d) = Len(q) + 1
        /\ \A i \in 1..n : d[i] = q[i]
        /\ d[n + 1] = side
        /\ \A i \in n + 1..Len(q) : d[i + 1] = q[i]
  <2>1. SUFFICES ASSUME IsPrefix(at, q)
                 PROVE  /\ Len(d) = Len(q) + 1
                        /\ \A i \in 1..n : d[i] = q[i]
                        /\ d[n + 1] = side
                        /\ \A i \in n + 1..Len(q) : d[i + 1] = q[i]
    OBVIOUS
  <2>2. QED
    BY <2>1, <1>1, DownBelow
<1>5. IsPrefix(at, r) =>
        /\ Len(e) = Len(r) + 1
        /\ \A i \in 1..n : e[i] = r[i]
        /\ e[n + 1] = side
        /\ \A i \in n + 1..Len(r) : e[i + 1] = r[i]
  <2>1. SUFFICES ASSUME IsPrefix(at, r)
                 PROVE  /\ Len(e) = Len(r) + 1
                        /\ \A i \in 1..n : e[i] = r[i]
                        /\ e[n + 1] = side
                        /\ \A i \in n + 1..Len(r) : e[i + 1] = r[i]
    OBVIOUS
  <2>2. QED
    BY <2>1, <1>1, DownBelow
<1>6. (~IsPrefix(at, q) => d = q) /\ (~IsPrefix(at, r) => e = r)
    BY DownIs
<1>. HIDE DEF d, e, n
<1>7. CASE IsPrefix(at, q) /\ IsPrefix(at, r)
    <2>1. ASSUME NEW i, PartsAt(q, r, i) PROVE PartsAt(d, e, i + 1)
        <3>1. i > n /\ i \in 1..Len(q) /\ i \in 1..Len(r) /\ i \in n + 1..Len(q) /\ i \in n + 1..Len(r)
            <4>1. i \in 1..Len(q) /\ i \in 1..Len(r) /\ q[i] < r[i]
                BY <2>1 DEF PartsAt
            <4>2. q[i] \in Int
                BY <4>1, PathIs
            <4>3. ~(i <= n)
                BY <4>1, <4>2, <1>1, <1>2, <1>3, <1>7
            <4>4. QED
                BY <4>1, <4>3, <1>1
        <3>2. d[i + 1] = q[i] /\ e[i + 1] = r[i] /\ q[i] < r[i]
            BY <3>1, <2>1, <1>4, <1>5, <1>7 DEF PartsAt
        <3>3. i + 1 \in 1..Len(d) /\ i + 1 \in 1..Len(e)
            BY <3>1, <1>1, <1>4, <1>5, <1>7
        <3>4. ASSUME NEW k \in 1..i + 1 - 1 PROVE d[k] = e[k]
            <4>1. CASE k <= n
                BY <4>1, <1>1, <1>2, <1>3, <1>4, <1>5, <1>7
            <4>2. CASE k = n + 1
                BY <4>2, <1>4, <1>5, <1>7
            <4>3. CASE k > n + 1
                <5>1. /\ k - 1 \in n + 1..Len(q) /\ k - 1 \in n + 1..Len(r)
                      /\ k - 1 \in 1..i - 1 /\ k - 1 + 1 = k
                    BY <4>3, <3>1, <1>1
                <5>2. d[k] = q[k - 1] /\ e[k] = r[k - 1]
                    BY <5>1, <1>4, <1>5, <1>7
                <5>3. q[k - 1] = r[k - 1]
                    BY <5>1, <2>1 DEF PartsAt
                <5>4. QED
                    BY <5>2, <5>3
            <4>4. QED
                BY <4>1, <4>2, <4>3, <3>1, <1>1
        <3>5. d[i + 1] < e[i + 1]
            BY <3>2
        <3>6. \A k \in 1..(i + 1) - 1 : d[k] = e[k]
            BY <3>1, <3>4
        <3>7. QED
            BY <3>3, <3>5, <3>6, Zenon DEF PartsAt
    <2>2. ASSUME NEW i, PartsAt(d, e, i) PROVE PartsAt(q, r, i - 1)
        <3>0. i \in 1..Len(d) /\ i \in 1..Len(e) /\ d[i] < e[i] /\ d[i] \in Int
            BY <2>2, <1>1, PathIs DEF PartsAt
        <3>1. ~(i <= n)
            BY <3>0, <1>1, <1>2, <1>3, <1>4, <1>5, <1>7
        <3>2. i # n + 1
            BY <3>0, <1>1, <1>4, <1>5, <1>7
        <3>3. /\ i - 1 \in n + 1..Len(q) /\ i - 1 \in n + 1..Len(r) /\ i - 1 + 1 = i
              /\ i - 1 \in 1..Len(q) /\ i - 1 \in 1..Len(r)
            BY <3>0, <3>1, <3>2, <1>1, <1>4, <1>5, <1>7
        <3>4. d[i] = q[i - 1] /\ e[i] = r[i - 1]
            BY <3>3, <1>4, <1>5, <1>7
        <3>5. ASSUME NEW k \in 1..i - 1 - 1 PROVE q[k] = r[k]
            <4>1. CASE k <= n
                BY <4>1, <1>1, <1>2, <1>3, <1>7
            <4>2. CASE k > n
                <5>1. k \in n + 1..Len(q) /\ k \in n + 1..Len(r) /\ k + 1 \in 1..i - 1
                    BY <4>2, <3>3, <1>1
                <5>2. d[k + 1] = q[k] /\ e[k + 1] = r[k]
                    BY <5>1, <1>4, <1>5, <1>7
                <5>3. d[k + 1] = e[k + 1]
                    BY <5>1, <2>2 DEF PartsAt
                <5>4. QED
                    BY <5>2, <5>3
            <4>3. QED
                BY <4>1, <4>2, <3>3, <1>1
        <3>6. QED
            BY <3>0, <3>3, <3>4, <3>5 DEF PartsAt
    <2>3. QED
        BY <2>1, <2>2, <1>1, PrecedesIs DEF d, e
<1>8. CASE IsPrefix(at, q) /\ ~IsPrefix(at, r)
    <2>1. ASSUME NEW i, PartsAt(q, r, i) \/ PartsAt(d, e, i)
          PROVE  i \in 1..n
        <3>1. i \in Nat /\ i \in 1..Len(r)
            BY <2>1, <1>1, <1>6, <1>8 DEF PartsAt
        <3>2. SUFFICES ASSUME i > n PROVE FALSE
            BY <3>1, <2>1, <1>1 DEF PartsAt
        <3>3. \A k \in 1..n : k \in 1..i - 1
            BY <3>1, <3>2, <1>1
        <3>4. \A k \in 1..n : q[k] = r[k]
            BY <2>1, <3>3, <1>4, <1>6, <1>8 DEF PartsAt
        <3>5. n <= Len(r)
            BY <3>1, <3>2, <1>1
        <3>6. QED
            BY <3>4, <3>5, <1>2, <1>3, <1>8
    <2>2. ASSUME NEW i \in 1..n PROVE PartsAt(q, r, i) <=> PartsAt(d, e, i)
        <3>1. \A k \in 1..i : d[k] = q[k]
            BY <1>1, <1>4, <1>8
        <3>2. i \in 1..Len(q) /\ i \in 1..Len(d) /\ i \in 1..i /\ \A k \in 1..i - 1 : k \in 1..i
            BY <1>1, <1>2, <1>4, <1>8
        <3>3. QED
            BY <3>1, <3>2, <1>6, <1>8 DEF PartsAt
    <2>3. QED
        BY <2>1, <2>2, <1>1, PrecedesIs DEF d, e
<1>9. CASE ~IsPrefix(at, q) /\ IsPrefix(at, r)
    <2>1. ASSUME NEW i, PartsAt(q, r, i) \/ PartsAt(d, e, i)
          PROVE  i \in 1..n
        <3>1. i \in Nat /\ i \in 1..Len(q)
            BY <2>1, <1>1, <1>6, <1>9 DEF PartsAt
        <3>2. SUFFICES ASSUME i > n PROVE FALSE
            BY <3>1, <2>1, <1>1 DEF PartsAt
        <3>3. \A k \in 1..n : k \in 1..i - 1
            BY <3>1, <3>2, <1>1
        <3>4. \A k \in 1..n : q[k] = r[k]
            BY <2>1, <3>3, <1>5, <1>6, <1>9 DEF PartsAt
        <3>5. n <= Len(q)
            BY <3>1, <3>2, <1>1
        <3>6. QED
            BY <3>4, <3>5, <1>2, <1>3, <1>9
    <2>2. ASSUME NEW i \in 1..n PROVE PartsAt(q, r, i) <=> PartsAt(d, e, i)
        <3>1. \A k \in 1..i : e[k] = r[k]
            BY <1>1, <1>5, <1>9
        <3>2. i \in 1..Len(r) /\ i \in 1..Len(e) /\ i \in 1..i /\ \A k \in 1..i - 1 : k \in 1..i
            BY <1>1, <1>3, <1>5, <1>9
        <3>3. QED
            BY <3>1, <3>2, <1>6, <1>9 DEF PartsAt
    <2>3. QED
        BY <2>1, <2>2, <1>1, PrecedesIs DEF d, e
<1>10. CASE ~IsPrefix(at, q) /\ ~IsPrefix(at, r)
    BY <1>6, <1>10 DEF d, e
<1>11. QED
    BY <1>7, <1>8, <1>9, <1>10

-------------------------------------------------------------------------------
\* Induction, over a set of the steps that are done.

LEMMA UpTo ==
    ASSUME NEW N \in Nat, NEW S, 0 \in S, \A i \in 1..N : i - 1 \in S => i \in S
    PROVE  \A i \in 0..N : i \in S
<1>. DEFINE bad == {i \in 0..N : i \notin S}
<1>. SUFFICES ASSUME bad # {} PROVE FALSE
    OBVIOUS
<1>. DEFINE less == {ss \in Nat \X Nat : ss[1] < ss[2]}
<1>1. IsWellFoundedOn(less, Nat)
    BY NatLessThanWellFounded, Zenon DEF OpToRel
<1>2. bad \subseteq Nat
    OBVIOUS
<1>3. PICK i \in bad : \A j \in bad : ~ (<<j, i>> \in less)
  <2>. HIDE DEF less, bad
  <2>. QED
    BY <1>1, <1>2, WFMin, Zenon
<1>4. i \in 1..N /\ i - 1 \in 0..N /\ i - 1 < i /\ i - 1 \in Nat /\ i \in Nat
    OBVIOUS
<1>5. <<i - 1, i>> \in less
    BY <1>4
<1>6. QED
    BY <1>3, <1>4, <1>5

-------------------------------------------------------------------------------
\* Proper trees: the root is a position, what is above a position is a split,
\* both children of a split are positions, and no leaf is a split.

Proper(L, K) ==
    /\ L \subseteq Path /\ K \subseteq Path
    /\ IsFiniteSet(L)
    /\ L \cap K = {}
    /\ <<>> \in L \cup K
    /\ \A p \in L \cup K : p # <<>> => Front(p) \in K
    /\ \A p \in K, s \in {1, 2} : Append(p, s) \in L \cup K

LEMMA AboveIsSplit ==
    ASSUME NEW L, NEW K, Proper(L, K), NEW p \in L \cup K, NEW q \in Path, IsPrefix(q, p), q # p
    PROVE  q \in K
<1>. DEFINE N == Len(p) - 1
            S == {m \in 0..N : SubSeq(p, 1, N - m) \in K}
<1>1. p \in Path
    BY DEF Proper
<1>2. Len(p) \in Nat /\ Len(q) \in Nat /\ Len(q) <= Len(p) /\ \A i \in 1..Len(q) : q[i] = p[i]
    BY <1>1, PathIs, PrefixIs
<1>3. Len(q) # Len(p)
    BY <1>1, <1>2, PathEqual
<1>4. N \in Nat /\ Len(q) \in 0..N /\ p # <<>>
    BY <1>1, <1>2, <1>3, PathIs
<1>5. 0 \in S
    <2>1. Front(p) \in K
        BY <1>4 DEF Proper
    <2>2. Front(p) = SubSeq(p, 1, N - 0)
        BY <1>4 DEF Front
    <2>3. QED
        BY <2>1, <2>2, <1>4
<1>6. ASSUME NEW m \in 1..N, m - 1 \in S PROVE m \in S
    <2>. DEFINE r == SubSeq(p, 1, N - (m - 1))
                u == SubSeq(p, 1, N - m)
    <2>1. N - (m - 1) \in 0..Len(p) /\ N - m \in 0..Len(p) /\ N - (m - 1) = N - m + 1
        BY <1>2, <1>4
    <2>2. r \in Path /\ Len(r) = N - m + 1 /\ \A i \in 1..N - m + 1 : r[i] = p[i]
        BY <1>1, <2>1, PartPath
    <2>3. u \in Path /\ Len(u) = N - m /\ \A i \in 1..N - m : u[i] = p[i]
        BY <1>1, <2>1, PartPath
    <2>4. r \in K
        BY <1>6
    <2>. HIDE DEF r, u
    <2>5. r # <<>>
        BY <1>4, <2>2, PathIs
    <2>6. /\ Front(r) \in Path
          /\ Len(r) = Len(Front(r)) + 1
          /\ \A i \in 1..Len(Front(r)) : Front(r)[i] = r[i]
        BY <2>2, <2>5, ParentPath
    <2>7. Len(Front(r)) \in Nat
        BY <2>6, PathIs
    <2>8. Len(Front(r)) = N - m
      <3>1. m \in Int /\ N \in Int
        BY <1>4, <1>2
      <3>2. Len(r) = Len(Front(r)) + 1
        BY <2>6
      <3>3. Len(r) = N - m + 1
        BY <2>2
      <3>. HIDE DEF N
      <3>4. QED
        BY <3>1, <3>2, <3>3, <2>7
    <2>9. \A i \in 1..Len(u) : Front(r)[i] = u[i]
        BY <2>2, <2>3, <2>6, <2>8, <1>4
    <2>10. Front(r) = u
        BY <2>3, <2>6, <2>8, <2>9, PathEqual
    <2>11. Front(r) \in K
        BY <2>4, <2>5 DEF Proper
    <2>12. QED
        BY <2>10, <2>11 DEF u
<1>7. \A m \in 0..N : m \in S
  <2>. HIDE DEF S, N
  <2>. QED
    BY <1>4, <1>5, <1>6, UpTo
<1>8. N - Len(q) \in 0..N /\ N - (N - Len(q)) = Len(q)
    BY <1>4
<1>9. SubSeq(p, 1, Len(q)) \in K
    BY <1>7, <1>8
<1>10. SubSeq(p, 1, Len(q)) = q
    <2>1. Len(q) \in 0..Len(p)
        BY <1>2
    <2>2. /\ SubSeq(p, 1, Len(q)) \in Path
          /\ Len(SubSeq(p, 1, Len(q))) = Len(q)
          /\ \A i \in 1..Len(q) : SubSeq(p, 1, Len(q))[i] = p[i]
        BY <1>1, <2>1, PartPath
    <2>3. QED
        BY <1>2, <2>2, PathEqual
<1>11. QED
    BY <1>9, <1>10

LEMMA NothingBelowLeaf ==
    ASSUME NEW L, NEW K, Proper(L, K), NEW p \in L, NEW q \in L \cup K, IsPrefix(p, q)
    PROVE  p = q
    BY AboveIsSplit DEF Proper

LEMMA LeavesInOrder ==
    ASSUME NEW L, NEW K, Proper(L, K), NEW p \in L, NEW q \in L, p # q
    PROVE  Precedes(p, q) \/ Precedes(q, p)
<1>1. p \in Path /\ q \in Path
    BY DEF Proper
<1>2. ~IsPrefix(p, q) /\ ~IsPrefix(q, p)
    BY NothingBelowLeaf
<1>3. QED
    BY <1>1, <1>2, PrecedesTotal

-------------------------------------------------------------------------------
\* The indices of the leaves: every one from 0 to their number has one leaf.

LEMMA SameSize ==
    ASSUME NEW S, NEW T, IsFiniteSet(S), NEW f \in [S -> T],
           \A x, y \in S : f[x] = f[y] => x = y,
           \A y \in T : \E x \in S : f[x] = y
    PROVE  IsFiniteSet(T) /\ Cardinality(T) = Cardinality(S)
<1>1. f \in Bijection(S, T)
    BY DEF Bijection, Injection, Surjection, IsInjective
<1>2. ExistsBijection(S, T)
    BY <1>1 DEF ExistsBijection
<1>3. QED
    BY <1>2, FS_Bijection

ProperTree(t) == Proper(DOMAIN t.leaf, DOMAIN t.split)

LEMMA LeafCountIs ==
    ASSUME NEW t, ProperTree(t)
    PROVE  LeafCount(t) \in Nat /\ (DOMAIN t.leaf # {} => LeafCount(t) > 0)
    BY FS_CardinalityType, FS_EmptySet DEF ProperTree, Proper, LeafCount

LEMMA LeafIndexIs ==
    ASSUME NEW t, ProperTree(t), NEW p \in DOMAIN t.leaf
    PROVE  LeafIndex(t, p) \in 0..LeafCount(t) - 1
<1>. DEFINE L == DOMAIN t.leaf
            below == {q \in L : Precedes(q, p)}
<1>1. IsFiniteSet(L) /\ p \in Path
    BY DEF ProperTree, Proper
<1>2. p \notin below
    BY <1>1, PrecedesIrreflexive
<1>3. /\ IsFiniteSet(L \ {p})
      /\ Cardinality(L \ {p}) = Cardinality(L) - 1
      /\ Cardinality(L) \in Nat
    BY <1>1, FS_RemoveElement, FS_CardinalityType
<1>4. below \in SUBSET (L \ {p})
    BY <1>2
<1>5. IsFiniteSet(below) /\ Cardinality(below) <= Cardinality(L \ {p})
  <2>. HIDE DEF below
  <2>. QED
    BY <1>3, <1>4, FS_Subset
<1>6. Cardinality(below) \in Nat
    BY <1>5, FS_CardinalityType
<1>7. QED
    BY <1>3, <1>5, <1>6 DEF LeafIndex, LeafCount

LEMMA LeafIndexGrows ==
    ASSUME NEW t, ProperTree(t), NEW p \in DOMAIN t.leaf, NEW q \in DOMAIN t.leaf, Precedes(p, q)
    PROVE  LeafIndex(t, p) < LeafIndex(t, q)
<1>. DEFINE L == DOMAIN t.leaf
            below == {r \in L : Precedes(r, p)}
            more == {r \in L : Precedes(r, q)}
<1>1. IsFiniteSet(L) /\ L \subseteq Path
    BY DEF ProperTree, Proper
<1>2. p \notin below /\ p \in more
    BY <1>1, PrecedesIrreflexive
<1>3. below \subseteq more
    BY <1>1, PrecedesTransitive
<1>4. IsFiniteSet(more)
  <2>1. more \in SUBSET L
    OBVIOUS
  <2>. HIDE DEF more
  <2>. QED
    BY <1>1, <2>1, FS_Subset
<1>5. LeafIndex(t, p) = Cardinality(below) /\ LeafIndex(t, q) = Cardinality(more)
    BY DEF LeafIndex
<1>. HIDE DEF below, more
<1>6. /\ IsFiniteSet(more \ {p})
      /\ Cardinality(more \ {p}) = Cardinality(more) - 1
      /\ Cardinality(more) \in Nat
    BY <1>2, <1>4, FS_RemoveElement, FS_CardinalityType
<1>7. below \in SUBSET (more \ {p})
    BY <1>2, <1>3
<1>8. IsFiniteSet(below) /\ Cardinality(below) <= Cardinality(more \ {p})
    BY <1>6, <1>7, FS_Subset
<1>9. Cardinality(below) \in Nat
    BY <1>8, FS_CardinalityType
<1>10. QED
    BY <1>5, <1>6, <1>8, <1>9

LEMMA LeafIndexOrders ==
    ASSUME NEW t, ProperTree(t), NEW p \in DOMAIN t.leaf, NEW q \in DOMAIN t.leaf
    PROVE  /\ LeafIndex(t, p) = LeafIndex(t, q) => p = q
           /\ LeafIndex(t, p) < LeafIndex(t, q) <=> Precedes(p, q)
<1>1. LeafIndex(t, p) \in Nat /\ LeafIndex(t, q) \in Nat
    BY LeafIndexIs, LeafCountIs
<1>2. p # q => Precedes(p, q) \/ Precedes(q, p)
    BY LeavesInOrder DEF ProperTree
<1>3. Precedes(p, q) => LeafIndex(t, p) < LeafIndex(t, q)
    BY LeafIndexGrows
<1>4. Precedes(q, p) => LeafIndex(t, q) < LeafIndex(t, p)
    BY LeafIndexGrows
<1>5. QED
    BY <1>1, <1>2, <1>3, <1>4

LEMMA LeafAtIs ==
    ASSUME NEW t, ProperTree(t), NEW i \in 0..LeafCount(t) - 1
    PROVE  LeafAt(t, i) \in DOMAIN t.leaf /\ LeafIndex(t, LeafAt(t, i)) = i
<1>. DEFINE L == DOMAIN t.leaf
            T == 0..LeafCount(t) - 1
            f == [p \in L |-> LeafIndex(t, p)]
<1>1. IsFiniteSet(L) /\ Cardinality(L) = LeafCount(t) /\ LeafCount(t) \in Nat
    BY LeafCountIs DEF ProperTree, Proper, LeafCount
<1>2. IsFiniteSet(T) /\ Cardinality(T) = LeafCount(t)
    BY <1>1, FS_Interval
<1>3. f \in [L -> T] /\ \A p, q \in L : f[p] = f[q] => p = q
    BY LeafIndexIs, LeafIndexOrders
<1>4. f \in Injection(L, T)
  <2>. HIDE DEF f, T
  <2>. QED
    BY <1>3 DEF Injection, IsInjective
<1>5. f \in Surjection(L, T)
  <2>. HIDE DEF f, T
  <2>. QED
    BY <1>1, <1>2, <1>4, FS_Injection
<1>6. \E p \in L : f[p] = i
  <2>. HIDE DEF f
  <2>. QED
    BY <1>5 DEF Surjection
<1>7. \E p \in L : LeafIndex(t, p) = i
    BY <1>6
<1>8. QED
    BY <1>7 DEF LeafAt

LEMMA LeafAtIndex ==
    ASSUME NEW t, ProperTree(t), NEW p \in DOMAIN t.leaf
    PROVE  LeafAt(t, LeafIndex(t, p)) = p
    BY LeafIndexIs, LeafAtIs, LeafIndexOrders

-------------------------------------------------------------------------------
\* What a tab is.

Size == [cols : Nat, rows : Nat]
Split == [axis : Axes, part : [{1, 2} -> Size]]
Leaves == UNION {[ps -> Panes] : ps \in SUBSET Path}
Splits == UNION {[ps -> Split] : ps \in SUBSET Path}
Ptys == UNION {[xs -> Size] : xs \in SUBSET Panes}
Request == [index : Nat, axis : Axes, second : BOOLEAN, top : BOOLEAN, size : Size]
Tab ==
    [leaf : Leaves, split : Splits, active : Nat, zoomed : Panes \cup {NoPane},
     size : Size, before : Size, pty : Ptys, dead : SUBSET Panes, asked : Request,
     fault : {"none", "loops", "wraps"}]

\* A tab with a tree: it is proper, every pane is at one leaf and has a
\* size, and the zoomed pane is one of them.
Good(t) ==
    /\ t \in Tab
    /\ ProperTree(t)
    /\ \A p, q \in DOMAIN t.leaf : t.leaf[p] = t.leaf[q] => p = q
    /\ DOMAIN t.pty = PanesOf(t)
    /\ t.zoomed # NoPane => t.zoomed \in PanesOf(t)

\* A tab whose last pane has gone.
Gone(t) ==
    /\ t \in Tab
    /\ DOMAIN t.leaf = {} /\ DOMAIN t.split = {} /\ DOMAIN t.pty = {}
    /\ t.zoomed = NoPane

\* What resizing and fitting leave alone.
Alike(t, u) ==
    /\ u \in Tab
    /\ u.leaf = t.leaf
    /\ DOMAIN u.split = DOMAIN t.split
    /\ DOMAIN u.pty = DOMAIN t.pty
    /\ u.active = t.active
    /\ u.dead = t.dead
    /\ u.asked = t.asked
    /\ u.zoomed \in {t.zoomed, NoPane}

LEMMA AlikeGood ==
    ASSUME NEW t, NEW u, Good(t), Alike(t, u)
    PROVE  Good(u) /\ PanesOf(u) = PanesOf(t) /\ LeafCount(u) = LeafCount(t)
    BY DEF Good, Alike, ProperTree, PanesOf, LeafCount

LEMMA AlikeTransitive ==
    ASSUME NEW t, NEW u, NEW v, Alike(t, u), Alike(u, v)
    PROVE  Alike(t, v)
    BY DEF Alike

LEMMA TabFields ==
    ASSUME NEW t \in Tab
    PROVE  /\ t.leaf \in [DOMAIN t.leaf -> Panes] /\ DOMAIN t.leaf \subseteq Path
           /\ t.split \in [DOMAIN t.split -> Split] /\ DOMAIN t.split \subseteq Path
           /\ t.pty \in [DOMAIN t.pty -> Size] /\ DOMAIN t.pty \subseteq Panes
           /\ t.active \in Nat /\ t.zoomed \in Panes \cup {NoPane}
           /\ t.size \in Size /\ t.before \in Size /\ t.dead \subseteq Panes
           /\ t.asked \in Request /\ t.fault \in {"none", "loops", "wraps"}
<1>1. t.leaf \in Leaves /\ t.split \in Splits /\ t.pty \in Ptys
    BY DEF Tab
<1>2. t.leaf \in [DOMAIN t.leaf -> Panes] /\ DOMAIN t.leaf \subseteq Path
    BY <1>1 DEF Leaves
<1>3. t.split \in [DOMAIN t.split -> Split] /\ DOMAIN t.split \subseteq Path
    BY <1>1 DEF Splits
<1>4. t.pty \in [DOMAIN t.pty -> Size] /\ DOMAIN t.pty \subseteq Panes
    BY <1>1 DEF Ptys
<1>5. QED
    BY <1>2, <1>3, <1>4 DEF Tab

LEMMA SizeWith ==
    ASSUME NEW s \in Size, NEW axis \in Axes, NEW n \in Nat
    PROVE  /\ [s EXCEPT ![axis] = n] \in Size
           /\ s[axis] \in Nat
           /\ Across(axis) \in Axes
    BY DEF Size, Axes, Across

LEMMA Numbers ==
    ASSUME NEW m \in Int, NEW n \in Int
    PROVE  /\ AtLeast(m, n) \in Int
           /\ AtLeast(m, n) >= m /\ AtLeast(m, n) >= n
           /\ AtLeast(m, n) \in {m, n}
           /\ Monus(m, n) \in Nat
           /\ Monus(m, n) >= m - n
           /\ Monus(m, n) \in {m - n, 0}
           /\ n \in Nat => AtLeast(m, n) \in Nat
    BY DEF AtLeast, Monus

LEMMA SplitIs ==
    ASSUME NEW split \in Split
    PROVE  /\ split.axis \in Axes
           /\ split.part \in [{1, 2} -> Size]
           /\ \A s \in {1, 2} : split.part[s] \in Size
           /\ \A s \in {1, 2}, axis \in Axes : split.part[s][axis] \in Nat
           /\ Whole(split) \in Size
<1>1. /\ split.axis \in Axes
      /\ split.part \in [{1, 2} -> Size]
      /\ \A s \in {1, 2} : split.part[s] \in Size
    BY DEF Split
<1>2. \A s \in {1, 2}, axis \in Axes : split.part[s][axis] \in Nat
    BY <1>1, SizeWith
<1>3. split.part[1][split.axis] + split.part[2][split.axis] + 1 \in Nat
    BY <1>1, <1>2
<1>4. QED
    BY <1>1, <1>2, <1>3, SizeWith DEF Whole

LEMMA PairOfSizes ==
    ASSUME NEW a \in Size, NEW b \in Size
    PROVE  <<a, b>> \in [{1, 2} -> Size] /\ <<a, b>>[1] = a /\ <<a, b>>[2] = b
    OBVIOUS

\* A split, or a pane's size, takes another value.
LEMMA SplitSet ==
    ASSUME NEW t \in Tab, NEW p \in DOMAIN t.split, NEW split \in Split,
           NEW u, u = [t EXCEPT !.split[p] = split]
    PROVE  Alike(t, u)
<1>1. [t.split EXCEPT ![p] = split] \in [DOMAIN t.split -> Split] /\ DOMAIN t.split \subseteq Path
    BY TabFields
<1>2. [t.split EXCEPT ![p] = split] \in Splits
    BY <1>1 DEF Splits
<1>3. u = [t EXCEPT !.split = [t.split EXCEPT ![p] = split]]
    BY DEF Tab
<1>4. u \in Tab
    BY <1>2, <1>3 DEF Tab
<1>5. QED
    BY <1>1, <1>3, <1>4 DEF Alike, Tab

LEMMA PtySet ==
    ASSUME NEW t \in Tab, NEW x \in DOMAIN t.pty, NEW size \in Size,
           NEW u, u = [t EXCEPT !.pty[x] = size]
    PROVE  Alike(t, u)
<1>1. [t.pty EXCEPT ![x] = size] \in [DOMAIN t.pty -> Size] /\ DOMAIN t.pty \subseteq Panes
    BY TabFields
<1>2. [t.pty EXCEPT ![x] = size] \in Ptys
    BY <1>1 DEF Ptys
<1>3. u = [t EXCEPT !.pty = [t.pty EXCEPT ![x] = size]]
    BY DEF Tab
<1>4. u \in Tab
    BY <1>2, <1>3 DEF Tab
<1>5. QED
    BY <1>1, <1>3, <1>4 DEF Alike, Tab

LEMMA FitIs ==
    ASSUME NEW t \in Tab, NEW p \in DOMAIN t.split, NEW room \in Size
    PROVE  Alike(t, Fit(t, p, room))
<1>. DEFINE split == t.split[p]
            kept == split.part[1][split.axis]
            a == [room EXCEPT ![split.axis] = kept]
            b == [room EXCEPT ![split.axis] = Monus(room[split.axis], 1 + kept)]
            fitted == [split EXCEPT !.part = <<a, b>>]
<1>1. split \in Split
    BY TabFields
<1>2. kept \in Nat /\ split.axis \in Axes
    BY <1>1, SplitIs
<1>3. room[split.axis] \in Nat
    BY <1>2, SizeWith
<1>4. Monus(room[split.axis], 1 + kept) \in Nat
    <2>1. room[split.axis] \in Int /\ 1 + kept \in Int
        BY <1>2, <1>3
    <2>2. QED
        BY <2>1, Numbers
<1>5. a \in Size /\ b \in Size
    BY <1>2, <1>4, SizeWith
<1>6. <<a, b>> \in [{1, 2} -> Size]
    BY <1>5, PairOfSizes
<1>7. fitted \in Split
    BY <1>1, <1>6 DEF Split
<1>8. Fit(t, p, room) = [t EXCEPT !.split[p] = fitted]
    BY DEF Fit
<1>9. QED
    BY <1>7, <1>8, SplitSet

LEMMA PathOfIs ==
    ASSUME NEW t, NEW pane \in PanesOf(t)
    PROVE  PathOf(t, pane) \in DOMAIN t.leaf /\ t.leaf[PathOf(t, pane)] = pane
    BY DEF PanesOf, PathOf

LEMMA RoomIs ==
    ASSUME NEW t \in Tab, ProperTree(t), NEW p \in DOMAIN t.leaf \cup DOMAIN t.split
    PROVE  Room(t, p) \in Size
<1>1. CASE p = <<>>
    BY <1>1, TabFields DEF Room
<1>2. CASE p # <<>>
    <2>1. Front(p) \in DOMAIN t.split /\ Last(p) \in {1, 2}
        BY <1>2, ParentPath DEF ProperTree, Proper
    <2>2. t.split[Front(p)] \in Split
        BY <2>1, TabFields
    <2>3. QED
        BY <1>2, <2>1, <2>2, SplitIs DEF Room
<1>3. QED
    BY <1>1, <1>2

LEMMA SizesAppliedIs ==
    ASSUME NEW t, Good(t)
    PROVE  Alike(t, SizesApplied(t))
<1>. DEFINE ptys == [x \in DOMAIN t.pty |-> Room(t, PathOf(t, x))]
<1>1. t \in Tab /\ DOMAIN t.pty \subseteq Panes /\ DOMAIN t.pty = PanesOf(t)
    BY TabFields DEF Good
<1>2. \A x \in DOMAIN t.pty : Room(t, PathOf(t, x)) \in Size
    BY <1>1, PathOfIs, RoomIs DEF Good
<1>3. ptys \in [DOMAIN t.pty -> Size]
    BY <1>2
<1>4. ptys \in Ptys
    BY <1>1, <1>3 DEF Ptys
<1>5. SizesApplied(t) = [t EXCEPT !.pty = ptys]
    BY DEF SizesApplied
<1>6. DOMAIN ptys = DOMAIN t.pty
    OBVIOUS
<1>. HIDE DEF ptys
<1>7. SizesApplied(t) \in Tab
    BY <1>1, <1>4, <1>5 DEF Tab
<1>8. QED
    BY <1>1, <1>5, <1>6, <1>7 DEF Alike, Tab

-------------------------------------------------------------------------------
\* Repeating a step that stays in a set.

Runs(N, S, base, step, g) ==
    /\ g \in [0..N -> S]
    /\ g[0] = base
    /\ \A i \in 1..N : g[i] = step[<<i, g[i - 1]>>]

LEMMA Iterated ==
    ASSUME NEW N \in Nat, NEW S, NEW base \in S, NEW step \in [(1..N) \X S -> S]
    PROVE  \E g : Runs(N, S, base, step, g)
<1>. DEFINE Does(n, g) == g[0] = base /\ \A i \in 1..n : g[i] = step[<<i, g[i - 1]>>]
            T == {n \in 0..N : \E g \in [0..n -> S] : Does(n, g)}
<1>1. 0 \in T
    <2>. DEFINE first == [i \in 0..0 |-> base]
    <2>1. Does(0, first) /\ first \in [0..0 -> S] /\ 0 \in 0..N
        OBVIOUS
    <2>. HIDE DEF Does, first
    <2>2. QED
        BY <2>1
<1>2. ASSUME NEW n \in 1..N, n - 1 \in T PROVE n \in T
    <2>1. PICK g \in [0..n - 1 -> S] : Does(n - 1, g)
        BY <1>2
    <2>. DEFINE h == [i \in 0..n |-> IF i = n THEN step[<<n, g[n - 1]>>] ELSE g[i]]
    <2>2. n - 1 \in 0..n - 1 /\ n \in 1..N
        OBVIOUS
    <2>3. g[n - 1] \in S
        BY <2>2
    <2>4. <<n, g[n - 1]>> \in (1..N) \X S
        BY <2>2, <2>3
    <2>5. step[<<n, g[n - 1]>>] \in S
        BY <2>4
    <2>6. h \in [0..n -> S]
        BY <2>5
    <2>7. ASSUME NEW i \in 1..n PROVE h[i] = step[<<i, h[i - 1]>>]
        <3>1. CASE i = n
            <4>1. h[i] = step[<<n, g[n - 1]>>] /\ h[n - 1] = g[n - 1]
                BY <3>1, <2>2
            <4>2. QED
                BY <3>1, <4>1
        <3>2. CASE i # n
            <4>1. i \in 1..n - 1 /\ h[i] = g[i] /\ h[i - 1] = g[i - 1]
                BY <3>2, <2>2
            <4>2. QED
                BY <4>1, <2>1
        <3>3. QED
            BY <3>1, <3>2
    <2>8. h[0] = base
        BY <2>1, <2>2
    <2>. HIDE DEF h
    <2>9. Does(n, h)
        BY <2>7, <2>8
    <2>10. QED
        BY <2>6, <2>9
<1>3. \A n \in 0..N : n \in T
  <2>. HIDE DEF T
  <2>. QED
    BY <1>1, <1>2, UpTo
<1>4. N \in T
    BY <1>3
<1>5. PICK g \in [0..N -> S] : Does(N, g)
    BY <1>4
<1>6. Runs(N, S, base, step, g)
    BY <1>5 DEF Runs
<1>7. QED
    BY <1>6

LEMMA IteratedAll ==
    ASSUME NEW N \in Nat, NEW S, NEW f, f[0] \in S,
           \A i \in 1..N : f[i - 1] \in S => f[i] \in S
    PROVE  \A i \in 0..N : f[i] \in S
<1>. DEFINE T == {i \in 0..N : f[i] \in S}
<1>1. 0 \in T
    OBVIOUS
<1>2. \A i \in 1..N : i - 1 \in T => i \in T
    OBVIOUS
<1>3. \A i \in 0..N : i \in T
  <2>. HIDE DEF T
  <2>. QED
    BY <1>1, <1>2, UpTo
<1>4. QED
    BY <1>3

-------------------------------------------------------------------------------
\* Sizes.

LEMMA MinExtentIs ==
    ASSUME NEW t, ProperTree(t), NEW p \in DOMAIN t.leaf \cup DOMAIN t.split, NEW axis
    PROVE  MinExtent(t, p, axis) \in Nat
<1>. DEFINE N == LeafCount(t)
            at == DOMAIN t.leaf \cup DOMAIN t.split
            S == [at -> Nat]
            Level(h, below) ==
                [q \in at |->
                    IF h = 0 \/ q \notin DOMAIN t.split THEN 1
                    ELSE LET left == below[Append(q, 1)]
                             right == below[Append(q, 2)]
                         IN  IF t.split[q].axis = axis THEN left + right + 1 ELSE AtLeast(left, right)]
            Eq(f) == f = [h \in 0..N |-> Level(h, f[h - 1])]
            base == [q \in at |-> 1]
            step == [x \in (1..N) \X S |-> Level(x[1], x[2])]
            least == CHOOSE f : Eq(f)
<1>1. N \in Nat
    BY LeafCountIs
<1>2. ASSUME NEW h, NEW below \in S PROVE Level(h, below) \in S
    <2>1. ASSUME NEW q \in DOMAIN t.split
          PROVE below[Append(q, 1)] \in Nat /\ below[Append(q, 2)] \in Nat
        BY DEF ProperTree, Proper
    <2>2. \A m, n \in Nat : AtLeast(m, n) \in Nat /\ m + n + 1 \in Nat
        BY DEF AtLeast
    <2>3. QED
        BY <2>1, <2>2
<1>3. step \in [(1..N) \X S -> S]
    BY <1>2
<1>4. base \in S
    OBVIOUS
<1>5. \A below : Level(0, below) = base
    OBVIOUS
<1>6. \A h \in 1..N, below \in S : step[<<h, below>>] = Level(h, below)
    OBVIOUS
<1>7. MinExtent(t, p, axis) = least[N][p]
    BY DEF MinExtent
<1>. HIDE DEF S, step, base, Level, N
<1>8. \E f : Eq(f)
    <2>1. PICK g : Runs(N, S, base, step, g)
        BY <1>1, <1>3, <1>4, Iterated
    <2>2. ASSUME NEW h \in 0..N PROVE g[h] = Level(h, g[h - 1])
        <3>1. CASE h = 0
            BY <3>1, <2>1, <1>5 DEF Runs
        <3>2. CASE h # 0
            <4>1. h \in 1..N /\ h - 1 \in 0..N
                BY <3>2, <1>1
            <4>2. g[h - 1] \in S
                BY <4>1, <2>1 DEF Runs
            <4>3. QED
                BY <4>1, <4>2, <2>1, <1>6 DEF Runs
        <3>3. QED
            BY <3>1, <3>2
    <2>3. g = [h \in 0..N |-> Level(h, g[h - 1])]
        BY <2>1, <2>2 DEF Runs
    <2>4. QED
        BY <2>3
<1>9. Eq(least)
    BY <1>8
<1>. HIDE DEF least
<1>10. least[0] \in S
    BY <1>1, <1>4, <1>5, <1>9
<1>11. ASSUME NEW h \in 1..N, least[h - 1] \in S PROVE least[h] \in S
    <2>1. least[h] = Level(h, least[h - 1])
        BY <1>1, <1>9
    <2>2. QED
        BY <2>1, <1>2, <1>11
<1>12. \A h \in 0..N : least[h] \in S
    BY <1>1, <1>10, <1>11, IteratedAll
<1>13. least[N] \in S
    BY <1>1, <1>12
<1>14. QED
    BY <1>7, <1>13 DEF S

\* What a half gives up it has: a split does not come out smaller than nothing.
LEMMA SharesFit ==
    ASSUME NEW extent \in [{1, 2} -> Nat], NEW n \in Int, ~Loops(extent, n)
    PROVE  /\ Shares(extent, n) \in [{1, 2} -> Int]
           /\ extent[1] + Shares(extent, n)[1] \in Nat
           /\ extent[2] + Shares(extent, n)[2] \in Nat
<1>. DEFINE half == (AtLeast(n, -n) + 1) \div 2
            most == Monus(extent[1], 1)
            rest == Monus(extent[2], 1)
            less == AtLeast(-n - rest, IF half > most THEN most ELSE half)
<1>1. extent[1] \in Nat /\ extent[2] \in Nat
    OBVIOUS
<1>2. /\ most \in Nat /\ most <= extent[1]
      /\ rest \in Nat /\ rest <= extent[2]
    BY <1>1 DEF Monus, AtLeast
<1>3. half \in Nat /\ half <= AtLeast(n, -n)
    BY DEF AtLeast
<1>4. AtLeast(n, -n) = IF n > 0 THEN n ELSE -n
    BY DEF AtLeast
<1>5. n < 0 => -n <= most + rest
    BY <1>2 DEF Loops
<1>6. Shares(extent, n) = IF n > 0 THEN <<half, n - half>> ELSE <<-less, n + less>>
    BY DEF Shares
<1>7. CASE n > 0
    <2>1. Shares(extent, n) = <<half, n - half>>
        BY <1>6, <1>7
    <2>. HIDE DEF half
    <2>2. n - half \in Nat
        BY <1>3, <1>4, <1>7
    <2>3. QED
        BY <1>1, <1>3, <2>1, <2>2
<1>8. CASE ~(n > 0)
    <2>1. Shares(extent, n) = <<-less, n + less>>
        BY <1>6, <1>8
    <2>. HIDE DEF half, most, rest
    <2>2. less \in Int /\ less <= most /\ less <= -n /\ less >= -n - rest
        BY <1>2, <1>3, <1>4, <1>5, <1>8 DEF AtLeast
    <2>. HIDE DEF less
    <2>3. extent[1] - less \in Nat /\ extent[2] + (n + less) \in Nat /\ -less \in Int /\ n + less \in Int
        BY <1>1, <1>2, <1>8, <2>2
    <2>4. Shares(extent, n)[1] = -less /\ Shares(extent, n)[2] = n + less
        BY <2>1
    <2>5. extent[1] + (-less) = extent[1] - less
        BY <1>1, <2>3
    <2>6. <<-less, n + less>> \in [{1, 2} -> Int]
        BY <2>3
    <2>7. QED
        BY <2>1, <2>3, <2>4, <2>5, <2>6
<1>9. QED
    BY <1>7, <1>8

Called_ == [extent : [{1, 2} -> Nat], calls : [{1, 2} -> Seq(Int)], loops : BOOLEAN]

LEMMA PairOfNats ==
    ASSUME NEW a \in Nat, NEW b \in Nat
    PROVE  <<a, b>> \in [{1, 2} -> Nat]
    OBVIOUS

LEMMA PairOfCalls ==
    ASSUME NEW a \in Seq(Int), NEW b \in Seq(Int)
    PROVE  <<a, b>> \in [{1, 2} -> Seq(Int)]
    OBVIOUS

LEMMA CalledIs ==
    ASSUME NEW t, ProperTree(t), NEW p \in DOMAIN t.split, NEW axis,
           NEW u \in Called_, NEW n \in Int
    PROVE  Called(t, p, axis, u, n) \in Called_
<1>. DEFINE new == AtLeast(u.extent[1] + n, MinExtent(t, p, axis))
            more == new - u.extent[1]
            share == Shares(u.extent, n)
            Cells(m) == [k \in 1..AtLeast(m, -m) |-> IF m > 0 THEN 1 ELSE -1]
            across == [u EXCEPT !.extent = <<new, new>>,
                                !.calls = <<Append(u.calls[1], more), Append(u.calls[2], more)>>]
            along == [u EXCEPT !.extent = <<u.extent[1] + share[1], u.extent[2] + share[2]>>,
                               !.calls = <<u.calls[1] \o Cells(share[1]), u.calls[2] \o Cells(share[2])>>]
<1>1. /\ u.extent \in [{1, 2} -> Nat]
      /\ u.extent[1] \in Nat /\ u.extent[2] \in Nat
      /\ u.calls[1] \in Seq(Int) /\ u.calls[2] \in Seq(Int)
    BY DEF Called_
<1>2. MinExtent(t, p, axis) \in Nat
    BY MinExtentIs
<1>3. new \in Nat /\ more \in Int
    <2>1. u.extent[1] + n \in Int
        BY <1>1
    <2>2. new \in Nat
        BY <2>1, <1>2 DEF AtLeast
    <2>. HIDE DEF new
    <2>3. QED
        BY <2>2, <1>1
<1>4. across \in Called_
    <2>1. <<new, new>> \in [{1, 2} -> Nat]
        BY <1>3, PairOfNats
    <2>. HIDE DEF new, more
    <2>2. Append(u.calls[1], more) \in Seq(Int) /\ Append(u.calls[2], more) \in Seq(Int)
        BY <1>1, <1>3, AppendProperties
    <2>3. <<Append(u.calls[1], more), Append(u.calls[2], more)>> \in [{1, 2} -> Seq(Int)]
        BY <2>2, PairOfCalls
    <2>4. QED
        BY <2>1, <2>3 DEF Called_
<1>5. ASSUME ~Loops(u.extent, n) PROVE along \in Called_
    <2>1. /\ share \in [{1, 2} -> Int]
          /\ u.extent[1] + share[1] \in Nat
          /\ u.extent[2] + share[2] \in Nat
        BY <1>1, <1>5, SharesFit
    <2>. HIDE DEF share
    <2>2. ASSUME NEW m \in Int PROVE Cells(m) \in Seq(Int)
        <3>1. AtLeast(m, -m) \in Nat
            BY DEF AtLeast
        <3>2. Cells(m) \in [1..AtLeast(m, -m) -> Int]
            OBVIOUS
        <3>3. QED
            BY <3>1, <3>2, SeqDef
    <2>3. share[1] \in Int /\ share[2] \in Int
        BY <2>1
    <2>4. Cells(share[1]) \in Seq(Int) /\ Cells(share[2]) \in Seq(Int)
        BY <2>2, <2>3
    <2>. HIDE DEF Cells
    <2>5. u.calls[1] \o Cells(share[1]) \in Seq(Int) /\ u.calls[2] \o Cells(share[2]) \in Seq(Int)
        BY <1>1, <2>4, ConcatProperties
    <2>6. <<u.calls[1] \o Cells(share[1]), u.calls[2] \o Cells(share[2])>> \in [{1, 2} -> Seq(Int)]
        BY <2>5, PairOfCalls
    <2>7. <<u.extent[1] + share[1], u.extent[2] + share[2]>> \in [{1, 2} -> Nat]
        BY <2>1, PairOfNats
    <2>8. QED
        BY <2>6, <2>7 DEF Called_
<1>6. [u EXCEPT !.loops = TRUE] \in Called_
    BY DEF Called_
<1>7. CalledAcross(u, new) \in {u, across} /\ CalledAlong(u, share) = along
    BY DEF CalledAcross, CalledAlong
<1>8. \/ Called(t, p, axis, u, n) = CalledAcross(u, new)
      \/ Called(t, p, axis, u, n) = [u EXCEPT !.loops = TRUE]
      \/ ~Loops(u.extent, n) /\ Called(t, p, axis, u, n) = CalledAlong(u, share)
    BY DEF Called
<1>. HIDE DEF along, across, new, share
<1>9. QED
    BY <1>4, <1>5, <1>6, <1>7, <1>8

LEMMA AllCalledIs ==
    ASSUME NEW t, ProperTree(t), t \in Tab, NEW p \in DOMAIN t.split, NEW axis \in Axes,
           NEW calls \in Seq(Int)
    PROVE  AllCalled(t, p, axis, calls) \in Called_
<1>. DEFINE N == Len(calls)
            part == t.split[p].part
            base == [extent |-> <<part[1][axis], part[2][axis]>>, calls |-> <<<<>>, <<>>>>, loops |-> FALSE]
            S == Called_
            Eq(f) == f = [i \in 0..N |-> IF i = 0 THEN base ELSE Called(t, p, axis, f[i - 1], calls[i])]
            step == [x \in (1..N) \X S |-> Called(t, p, axis, x[2], calls[x[1]])]
            called == CHOOSE f : Eq(f)
<1>1. N \in Nat /\ \A i \in 1..N : calls[i] \in Int
    OBVIOUS
<1>2. \A i \in 1..N, u \in S : Called(t, p, axis, u, calls[i]) \in S
    BY <1>1, CalledIs
<1>3. step \in [(1..N) \X S -> S]
    BY <1>2
<1>4. base \in S
    <2>1. part[1][axis] \in Nat /\ part[2][axis] \in Nat
        <3>1. t.split[p] \in Split
            BY TabFields
        <3>2. QED
            BY <3>1, SplitIs
    <2>. HIDE DEF part
    <2>2. <<part[1][axis], part[2][axis]>> \in [{1, 2} -> Nat]
        BY <2>1, PairOfNats
    <2>3. <<<<>>, <<>>>> \in [{1, 2} -> Seq(Int)]
        BY EmptySeq, PairOfCalls
    <2>4. QED
        BY <2>2, <2>3 DEF Called_
<1>5. \A i \in 1..N, u \in S : step[<<i, u>>] = Called(t, p, axis, u, calls[i])
    OBVIOUS
<1>6. AllCalled(t, p, axis, calls) = called[N]
    BY DEF AllCalled
<1>. HIDE DEF S, step, base, N
<1>7. \E f : Eq(f)
    <2>1. PICK g : Runs(N, S, base, step, g)
        BY <1>1, <1>3, <1>4, Iterated
    <2>2. ASSUME NEW i \in 0..N
          PROVE g[i] = IF i = 0 THEN base ELSE Called(t, p, axis, g[i - 1], calls[i])
        <3>1. CASE i = 0
            BY <3>1, <2>1 DEF Runs
        <3>2. CASE i # 0
            <4>1. i \in 1..N /\ i - 1 \in 0..N
                BY <3>2, <1>1
            <4>2. g[i - 1] \in S
                BY <4>1, <2>1 DEF Runs
            <4>3. QED
                BY <4>1, <4>2, <2>1, <1>5, <3>2 DEF Runs
        <3>3. QED
            BY <3>1, <3>2
    <2>3. g = [i \in 0..N |-> IF i = 0 THEN base ELSE Called(t, p, axis, g[i - 1], calls[i])]
        BY <2>1, <2>2 DEF Runs
    <2>4. QED
        BY <2>3
<1>8. Eq(called)
    BY <1>7
<1>. HIDE DEF called
<1>9. called[0] \in S
    BY <1>1, <1>4, <1>8
<1>10. ASSUME NEW i \in 1..N, called[i - 1] \in S PROVE called[i] \in S
    <2>1. called[i] = Called(t, p, axis, called[i - 1], calls[i])
        BY <1>1, <1>8
    <2>2. QED
        BY <2>1, <1>2, <1>10
<1>11. \A i \in 0..N : called[i] \in S
    BY <1>1, <1>9, <1>10, IteratedAll
<1>12. called[N] \in S
    BY <1>1, <1>11
<1>13. QED
    BY <1>6, <1>12 DEF S

LEMMA CallsForIs ==
    ASSUME NEW t, ProperTree(t), t \in Tab, NEW p \in DOMAIN t.split, NEW axis \in Axes, NEW n \in Int
    PROVE  CallsFor(t, p, axis, n) \in Seq(Int)
<1>. DEFINE N == Len(p)
            base == <<n>>
            S == Seq(Int)
            Next_(i, calls) == AllCalled(t, SubSeq(p, 1, i - 1), axis, calls).calls[p[i]]
            Eq(f) == f = [i \in 0..N |-> IF i = 0 THEN base ELSE Next_(i, f[i - 1])]
            step == [x \in (1..N) \X S |-> Next_(x[1], x[2])]
            down == CHOOSE f : Eq(f)
<1>0. p \in Path /\ N \in Nat
    BY PathIs DEF ProperTree, Proper
<1>2. ASSUME NEW i \in 1..N, NEW calls \in S PROVE Next_(i, calls) \in S
    <2>. DEFINE r == SubSeq(p, 1, i - 1)
    <2>1. i - 1 \in 0..Len(p) /\ i - 1 # Len(p) /\ i - 1 <= Len(p)
        BY <1>0
    <2>2. r \in Path /\ Len(r) = i - 1 /\ \A k \in 1..i - 1 : r[k] = p[k]
        BY <1>0, <2>1, PartPath
    <2>. HIDE DEF r
    <2>3. IsPrefix(r, p) /\ r # p
        BY <1>0, <2>1, <2>2, PrefixIs
    <2>4. r \in DOMAIN t.split
        BY <2>2, <2>3, AboveIsSplit DEF ProperTree
    <2>5. AllCalled(t, r, axis, calls) \in Called_
        BY <2>4, AllCalledIs
    <2>6. p[i] \in {1, 2}
        BY <1>0, PathIs
    <2>7. QED
        BY <2>5, <2>6 DEF Called_, r
<1>3. step \in [(1..N) \X S -> S]
  <2>. HIDE DEF Next_, S
  <2>. QED
    BY <1>2
<1>4. base \in S
    OBVIOUS
<1>5. \A i \in 1..N, calls \in S : step[<<i, calls>>] = Next_(i, calls)
  <2>. HIDE DEF Next_, S
  <2>. QED
    OBVIOUS
<1>6. CallsFor(t, p, axis, n) = down[N]
    BY DEF CallsFor
<1>. HIDE DEF S, step, base, N, Next_
<1>7. \E f : Eq(f)
    <2>1. PICK g : Runs(N, S, base, step, g)
        BY <1>0, <1>3, <1>4, Iterated
    <2>2. ASSUME NEW i \in 0..N
          PROVE g[i] = IF i = 0 THEN base ELSE Next_(i, g[i - 1])
        <3>1. CASE i = 0
            BY <3>1, <2>1 DEF Runs
        <3>2. CASE i # 0
            <4>1. i \in 1..N /\ i - 1 \in 0..N
                BY <3>2, <1>0
            <4>2. g[i - 1] \in S
                BY <4>1, <2>1 DEF Runs
            <4>3. QED
                BY <4>1, <4>2, <2>1, <1>5, <3>2 DEF Runs
        <3>3. QED
            BY <3>1, <3>2
    <2>3. g = [i \in 0..N |-> IF i = 0 THEN base ELSE Next_(i, g[i - 1])]
        BY <2>1, <2>2 DEF Runs
    <2>4. QED
        BY <2>3
<1>8. Eq(down)
    BY <1>7
<1>. HIDE DEF down
<1>9. down[0] \in S
    BY <1>0, <1>4, <1>8
<1>10. ASSUME NEW i \in 1..N, down[i - 1] \in S PROVE down[i] \in S
    <2>1. down[i] = Next_(i, down[i - 1])
        BY <1>0, <1>8
    <2>2. QED
        BY <2>1, <1>2, <1>10
<1>11. \A i \in 0..N : down[i] \in S
    BY <1>0, <1>9, <1>10, IteratedAll
<1>12. down[N] \in S
    BY <1>0, <1>11
<1>13. QED
    BY <1>6, <1>12 DEF S

LEMMA AdjustedIs ==
    ASSUME NEW t, ProperTree(t), t \in Tab, NEW axis \in Axes, NEW n \in Int
    PROVE  Alike(t, Adjusted(t, axis, n)) /\ Adjusted(t, axis, n).zoomed = t.zoomed
<1>. DEFINE after == [p \in DOMAIN t.split |-> AllCalled(t, p, axis, CallsFor(t, p, axis, n))]
            Fitted(p) ==
                [t.split[p] EXCEPT !.part[1][axis] = after[p].extent[1], !.part[2][axis] = after[p].extent[2]]
            fitted == [p \in DOMAIN t.split |-> Fitted(p)]
<1>1. ASSUME NEW p \in DOMAIN t.split PROVE Fitted(p) \in Split
    <2>. DEFINE u == after[p]
                split == t.split[p]
                a == [split.part[1] EXCEPT ![axis] = u.extent[1]]
                b == [split.part[2] EXCEPT ![axis] = u.extent[2]]
                parts == [[split.part EXCEPT ![1] = a] EXCEPT ![2] = b]
    <2>1. CallsFor(t, p, axis, n) \in Seq(Int)
        BY CallsForIs
    <2>2. u \in Called_
        <3>1. u = AllCalled(t, p, axis, CallsFor(t, p, axis, n))
            OBVIOUS
        <3>2. QED
            BY <2>1, <3>1, AllCalledIs
    <2>3. u.extent[1] \in Nat /\ u.extent[2] \in Nat
      <3>. HIDE DEF u
      <3>. QED
        BY <2>2 DEF Called_
    <2>4. split \in Split
        BY TabFields
    <2>5. split.part \in [{1, 2} -> Size] /\ split.part[1] \in Size /\ split.part[2] \in Size
        BY <2>4, SplitIs
    <2>6. a \in Size /\ b \in Size
      <3>. HIDE DEF u, split
      <3>. QED
        BY <2>3, <2>5, SizeWith
    <2>7. parts \in [{1, 2} -> Size]
      <3>. HIDE DEF a, b, split
      <3>. QED
        BY <2>5, <2>6
    <2>8. Fitted(p) = [split EXCEPT !.part = parts]
      <3>. HIDE DEF u
      <3>1. split \in [axis : Axes, part : [{1, 2} -> Size]]
        BY <2>4 DEF Split
      <3>2. [split EXCEPT !.part[1][axis] = u.extent[1], !.part[2][axis] = u.extent[2]]
              = [split EXCEPT !.part = parts]
        BY <3>1
      <3>3. QED
        BY <3>2 DEF u
    <2>9. QED
      <3>. HIDE DEF parts, split, Fitted
      <3>. QED
        BY <2>4, <2>7, <2>8 DEF Split
<1>2. fitted \in [DOMAIN t.split -> Split] /\ DOMAIN t.split \subseteq Path
  <2>. HIDE DEF Fitted
  <2>. QED
    BY <1>1, TabFields
<1>3. fitted \in Splits /\ DOMAIN fitted = DOMAIN t.split
  <2>. HIDE DEF fitted
  <2>. QED
    BY <1>2 DEF Splits
<1>4. \/ Adopted(t, axis, after) = [t EXCEPT !.fault = "loops"]
      \/ Adopted(t, axis, after) = [t EXCEPT !.split = fitted]
  <2>. HIDE DEF after
  <2>. QED
    BY DEF Adopted
<1>5. Adjusted(t, axis, n) \in {t, Adopted(t, axis, after)}
    BY DEF Adjusted
<1>. HIDE DEF fitted, after
<1>6. Adjusted(t, axis, n) \in Tab
    BY <1>3, <1>4, <1>5 DEF Tab
<1>7. QED
    BY <1>3, <1>4, <1>5, <1>6 DEF Alike, Tab

LEMMA SetSize ==
    ASSUME NEW t \in Tab, NEW size \in Size
    PROVE  Alike(t, [t EXCEPT !.size = size]) /\ [t EXCEPT !.size = size].zoomed = t.zoomed
    BY DEF Alike, Tab

LEMMA SetFault ==
    ASSUME NEW t \in Tab, NEW fault \in {"none", "loops", "wraps"}
    PROVE  Alike(t, [t EXCEPT !.fault = fault]) /\ [t EXCEPT !.fault = fault].zoomed = t.zoomed
    BY DEF Alike, Tab

LEMMA ResizedIs ==
    ASSUME NEW t, Good(t), NEW size \in Size
    PROVE  Alike(t, Resized(t, size)) /\ Resized(t, size).zoomed = t.zoomed
<1>. DEFINE cols == AtLeast(size.cols, MinExtent(t, <<>>, "cols"))
            rows == AtLeast(size.rows, MinExtent(t, <<>>, "rows"))
            wide == Adjusted(t, "cols", cols - t.size.cols)
            both == Adjusted(wide, "rows", rows - t.size.rows)
            whole == [cols |-> cols, rows |-> rows]
            sized == [both EXCEPT !.size = whole]
<1>0. t \in Tab /\ ProperTree(t) /\ t.size \in Size
    BY TabFields DEF Good
<1>1. CASE t.zoomed # NoPane
    <2>. DEFINE u == [t EXCEPT !.size = size]
                v == [u EXCEPT !.pty[t.zoomed] = size]
    <2>1. Alike(t, u) /\ u.zoomed = t.zoomed
        BY <1>0, SetSize
    <2>2. u \in Tab /\ t.zoomed \in DOMAIN u.pty
        BY <2>1, <1>1 DEF Alike, Good
    <2>3. v = [u EXCEPT !.pty = [u.pty EXCEPT ![t.zoomed] = size]]
      <3>. HIDE DEF u
      <3>. QED
        BY <2>2 DEF Tab
    <2>4. Resized(t, size) = v
      <3>1. Resized(t, size) = [t EXCEPT !.size = size, !.pty[t.zoomed] = size]
        BY <1>1 DEF Resized
      <3>2. QED
        BY <3>1, <1>0 DEF Tab
    <2>. HIDE DEF u
    <2>5. Alike(u, v)
        BY <2>2, PtySet
    <2>6. v.zoomed = u.zoomed
        BY <2>2, <2>3 DEF Tab
    <2>7. QED
        BY <2>1, <2>4, <2>5, <2>6, AlikeTransitive
<1>2. CASE t.zoomed = NoPane
    <2>1. cols \in Nat /\ rows \in Nat
        <3>1. <<>> \in DOMAIN t.leaf \cup DOMAIN t.split
            BY <1>0 DEF ProperTree, Proper
        <3>2. MinExtent(t, <<>>, "cols") \in Nat /\ MinExtent(t, <<>>, "rows") \in Nat
            BY <1>0, <3>1, MinExtentIs
        <3>3. size.cols \in Nat /\ size.rows \in Nat
            BY DEF Size
        <3>4. QED
            BY <3>2, <3>3 DEF AtLeast
    <2>. HIDE DEF cols, rows
    <2>2. t.size.cols \in Nat /\ t.size.rows \in Nat
        BY <1>0 DEF Size
    <2>3. cols - t.size.cols \in Int /\ rows - t.size.rows \in Int /\ "cols" \in Axes /\ "rows" \in Axes
        BY <2>1, <2>2 DEF Axes
    <2>4. Alike(t, wide) /\ wide.zoomed = t.zoomed
        BY <1>0, <2>3, AdjustedIs
    <2>. HIDE DEF wide
    <2>5. Good(wide)
        BY <2>4, AlikeGood
    <2>6. Alike(wide, both) /\ both.zoomed = wide.zoomed
        BY <2>3, <2>5, AdjustedIs DEF Good
    <2>. HIDE DEF both
    <2>7. Good(both) /\ both \in Tab /\ Alike(t, both) /\ both.zoomed = t.zoomed
        BY <2>4, <2>5, <2>6, AlikeGood, AlikeTransitive DEF Good
    <2>8. whole \in Size
        BY <2>1 DEF Size
    <2>. HIDE DEF whole
    <2>9. Alike(both, sized) /\ sized.zoomed = t.zoomed
        BY <2>7, <2>8, SetSize
    <2>10. Good(sized)
        BY <2>7, <2>9, AlikeGood
    <2>. HIDE DEF sized
    <2>11. Alike(sized, SizesApplied(sized)) /\ SizesApplied(sized).zoomed = sized.zoomed
        <3>1. sized \in Tab
            BY <2>10 DEF Good
        <3>2. SizesApplied(sized).zoomed = sized.zoomed
            BY <3>1 DEF SizesApplied, Tab
        <3>3. QED
            BY <2>10, <3>2, SizesAppliedIs
    <2>12. Alike(t, SizesApplied(sized)) /\ SizesApplied(sized).zoomed = t.zoomed
        BY <2>7, <2>9, <2>11, AlikeTransitive
    <2>13. \/ Resized(t, size) = [t EXCEPT !.fault = "loops"]
           \/ Resized(t, size) = SizesApplied(sized)
        BY <1>2 DEF Resized, cols, rows, wide, both, sized, whole
    <2>14. QED
        BY <1>0, <2>12, <2>13, SetFault
<1>3. QED
    BY <1>1, <1>2

\* Zoom.

LEMMA UnzoomedIs ==
    ASSUME NEW t, Good(t)
    PROVE  /\ Alike(t, Unzoomed(t))
           /\ Unzoomed(t).zoomed = NoPane
<1>1. CASE t.zoomed = NoPane
    <2>1. Unzoomed(t) = t
        BY <1>1 DEF Unzoomed
    <2>2. Alike(t, t)
        BY DEF Alike, Good
    <2>3. QED
        BY <2>1, <2>2, <1>1
<1>2. CASE t.zoomed # NoPane
    <2>. DEFINE u == [t EXCEPT !.zoomed = NoPane, !.size = t.before, !.before = InitialSize]
    <2>1. t \in Tab /\ t.before \in Size /\ t.size \in Size
        BY TabFields DEF Good
    <2>2. InitialSize \in Size
        BY SplitTreeAssumption DEF Size
    <2>3. Alike(t, u) /\ u.zoomed = NoPane
        BY <2>1, <2>2 DEF Alike, Tab
    <2>. HIDE DEF u
    <2>4. Good(u)
        BY <2>3, AlikeGood
    <2>5. Alike(u, Resized(u, t.size)) /\ Resized(u, t.size).zoomed = u.zoomed
        BY <2>1, <2>4, ResizedIs
    <2>6. Unzoomed(t) = Resized(u, t.size)
        BY <1>2 DEF Unzoomed, u
    <2>7. QED
        BY <2>3, <2>5, <2>6, AlikeTransitive
<1>3. QED
    BY <1>1, <1>2

LEMMA PaneAtIs ==
    ASSUME NEW t, Good(t), NEW i, HasIndex(t, i)
    PROVE  LeafAt(t, i) \in DOMAIN t.leaf /\ PaneAt(t, i) \in PanesOf(t)
<1>1. LeafAt(t, i) \in DOMAIN t.leaf
    BY LeafAtIs DEF HasIndex, Good
<1>2. QED
    BY <1>1 DEF PaneAt, PanesOf

LEMMA ZoomedIs ==
    ASSUME NEW t, Good(t)
    PROVE  /\ Good(Zoomed(t))
           /\ Zoomed(t).leaf = t.leaf
           /\ Zoomed(t).active = t.active
           /\ Zoomed(t).dead = t.dead
<1>1. t \in Tab /\ t.size \in Size
    BY TabFields DEF Good
<1>. DEFINE u == [t EXCEPT !.before = t.size]
<1>2. u \in Tab /\ Alike(t, u)
    BY <1>1 DEF Tab, Alike
<1>3. Good(u) /\ PanesOf(u) = PanesOf(t)
    BY <1>2, AlikeGood
<1>4. CASE ~HasIndex(t, t.active)
    <2>1. Zoomed(t) = u
        BY <1>4 DEF Zoomed
    <2>2. QED
        BY <1>2, <1>3, <2>1 DEF Alike
<1>5. CASE HasIndex(t, t.active)
    <2>. DEFINE pane == PaneAt(t, t.active)
                v == [u EXCEPT !.pty[pane] = t.size]
                w == [v EXCEPT !.zoomed = pane]
    <2>1. pane \in PanesOf(t)
        BY <1>5, PaneAtIs
    <2>. HIDE DEF pane
    <2>2. pane \in DOMAIN u.pty /\ pane \in Panes
        BY <1>1, <1>3, <2>1, TabFields DEF Good
    <2>3. Zoomed(t) = w
        <3>1. Zoomed(t) = [t EXCEPT !.before = t.size, !.zoomed = pane, !.pty[pane] = t.size]
            BY <1>5 DEF Zoomed, pane
        <3>2. QED
            BY <3>1, <1>1 DEF Tab
    <2>. HIDE DEF u
    <2>4. Alike(u, v)
        BY <1>1, <1>2, <2>2, PtySet
    <2>5. Good(v) /\ PanesOf(v) = PanesOf(t) /\ v \in Tab
        BY <1>3, <2>4, AlikeGood DEF Alike
    <2>. HIDE DEF v
    <2>6. /\ w \in Tab
          /\ w.leaf = v.leaf /\ w.split = v.split /\ w.pty = v.pty
          /\ w.zoomed = pane /\ w.active = v.active /\ w.dead = v.dead
        BY <2>2, <2>5 DEF Tab
    <2>. HIDE DEF w
    <2>7. PanesOf(w) = PanesOf(v)
        BY <2>6 DEF PanesOf
    <2>8. Good(w)
        BY <2>1, <2>5, <2>6, <2>7 DEF Good, ProperTree
    <2>9. QED
        BY <1>2, <2>3, <2>4, <2>6, <2>8 DEF Alike
<1>6. QED
    BY <1>4, <1>5

-------------------------------------------------------------------------------
\* A pane more: what was at a position goes down to one side of a new split.

LEMMA DownAt ==
    ASSUME NEW at \in Path, NEW side \in {1, 2}
    PROVE  Down(at, side, at) = Append(at, side)
<1>. DEFINE d == Down(at, side, at)
<1>1. Len(at) \in Nat
    BY PathIs
<1>2. IsPrefix(at, at)
    BY <1>1, PrefixIs
<1>3. /\ d \in Path
      /\ Len(d) = Len(at) + 1
      /\ \A i \in 1..Len(at) : d[i] = at[i]
      /\ d[Len(at) + 1] = side
    BY <1>2, DownBelow
<1>4. /\ Append(at, side) \in Path
      /\ Len(Append(at, side)) = Len(at) + 1
      /\ \A i \in 1..Len(at) : Append(at, side)[i] = at[i]
      /\ Append(at, side)[Len(at) + 1] = side
    BY ChildPath
<1>. HIDE DEF d
<1>5. \A i \in 1..Len(at) + 1 : d[i] = Append(at, side)[i]
    BY <1>1, <1>3, <1>4
<1>6. d = Append(at, side)
    BY <1>3, <1>4, <1>5, PathEqual
<1>7. QED
    BY <1>6 DEF d

LEMMA DownShorter ==
    ASSUME NEW at \in Path, NEW side \in {1, 2}, NEW q \in Path, Len(q) < Len(at)
    PROVE  ~IsPrefix(at, q) /\ Down(at, side, q) = q
<1>1. Len(q) \in Nat /\ Len(at) \in Nat
    BY PathIs
<1>2. ~IsPrefix(at, q)
    BY <1>1, PrefixIs
<1>3. QED
    BY <1>2, DownIs

LEMMA DownInjective ==
    ASSUME NEW at \in Path, NEW side \in {1, 2}, NEW q \in Path, NEW r \in Path,
           Down(at, side, q) = Down(at, side, r)
    PROVE  q = r
<1>1. Up(at, side, Down(at, side, q)) = q /\ Up(at, side, Down(at, side, r)) = r
    BY UpOfDown
<1>2. QED
    BY <1>1

LeavesAfter(L, at, side) == {Down(at, side, r) : r \in L} \cup {Append(at, 3 - side)}
SplitsAfter(K, at, side) == {Down(at, side, r) : r \in K} \cup {at}

LEMMA InsertedTree ==
    ASSUME NEW L, NEW K, Proper(L, K), NEW at \in L \cup K, NEW side \in {1, 2},
           NEW L1, L1 = LeavesAfter(L, at, side), NEW K1, K1 = SplitsAfter(K, at, side)
    PROVE  Proper(L1, K1) /\ Cardinality(L1) = Cardinality(L) + 1
<1>. DEFINE new == Append(at, 3 - side)
            D(q) == Down(at, side, q)
            image == {D(r) : r \in L}
<1>1. /\ at \in Path /\ L \subseteq Path /\ K \subseteq Path /\ 3 - side \in {1, 2}
      /\ IsFiniteSet(L) /\ L \cap K = {}
    BY DEF Proper
<1>2. new \in Path /\ new # <<>> /\ Front(new) = at /\ new # at
    <2>1. new \in Path /\ new # <<>> /\ Front(new) = at /\ Len(new) = Len(at) + 1 /\ Len(at) \in Nat
        BY <1>1, ChildPath, PathIs
    <2>2. QED
        BY <2>1
<1>3. \A r \in Path : D(r) \in Path /\ D(r) # new /\ D(r) # at
    BY <1>1, DownIs, DownAvoids
<1>4. \A q, r \in Path : D(q) = D(r) => q = r
    BY <1>1, DownInjective
<1>5. \A r \in Path, s \in {1, 2} : Append(r, s) # at => D(Append(r, s)) = Append(D(r), s)
    BY <1>1, DownOfChild
<1>6. D(at) = Append(at, side) /\ Front(D(at)) = at
    BY <1>1, DownAt, ChildPath
<1>7. \A r \in Path : Len(r) < Len(at) => D(r) = r
    BY <1>1, DownShorter
<1>8. \A q : q \in L1 <=> q = new \/ \E r \in L : q = D(r)
    BY DEF LeavesAfter
<1>9. \A q : q \in K1 <=> q = at \/ \E r \in K : q = D(r)
    BY DEF SplitsAfter
<1>10. IsFiniteSet(image) /\ Cardinality(image) = Cardinality(L)
    <2>. DEFINE f == [r \in L |-> D(r)]
    <2>1. f \in [L -> image]
        OBVIOUS
    <2>2. \A x, y \in L : f[x] = f[y] => x = y
        BY <1>1, <1>4
    <2>3. \A y \in image : \E x \in L : f[x] = y
        OBVIOUS
    <2>. HIDE DEF f, image
    <2>4. QED
        BY <1>1, <2>1, <2>2, <2>3, SameSize
<1>11. new \notin image
    BY <1>1, <1>3
<1>12. IsFiniteSet(L1) /\ Cardinality(L1) = Cardinality(L) + 1
  <2>1. L1 = image \cup {new}
    BY DEF LeavesAfter
  <2>. HIDE DEF image, new
  <2>2. /\ IsFiniteSet(image \cup {new})
        /\ Cardinality(image \cup {new}) = Cardinality(image) + 1
    BY <1>10, <1>11, FS_AddElement
  <2>. QED
    BY <1>10, <2>1, <2>2
<1>. HIDE DEF D, new
<1>13. L1 \subseteq Path /\ K1 \subseteq Path
    BY <1>1, <1>2, <1>3, <1>8, <1>9
<1>14. L1 \cap K1 = {}
    BY <1>1, <1>2, <1>3, <1>4, <1>8, <1>9
<1>15. <<>> \in L1 \cup K1
    <2>1. CASE at = <<>>
        BY <2>1, <1>9
    <2>2. CASE at # <<>>
        <3>1. Len(<<>>) < Len(at) /\ <<>> \in Path
            BY <1>1, <2>2, PathIs, RootPath
        <3>2. D(<<>>) = <<>>
            BY <3>1, <1>7
        <3>3. <<>> \in L \cup K
            BY DEF Proper
        <3>4. QED
            BY <3>2, <3>3, <1>8, <1>9
    <2>3. QED
        BY <2>1, <2>2
<1>16. ASSUME NEW q \in L1 \cup K1, q # <<>> PROVE Front(q) \in K1
    <2>1. CASE q = new
        BY <2>1, <1>2, <1>9
    <2>2. CASE q = at
        <3>1. Front(at) \in K
            BY <1>16, <2>2 DEF Proper
        <3>2. Front(at) \in Path /\ Len(at) = Len(Front(at)) + 1
            BY <1>1, <1>16, <2>2, ParentPath
        <3>3. Len(Front(at)) < Len(at)
            BY <3>2, PathIs
        <3>4. D(Front(at)) = Front(at)
            BY <3>2, <3>3, <1>7
        <3>5. QED
            BY <2>2, <3>1, <3>4, <1>9
    <2>3. ASSUME NEW r \in L \cup K, q = D(r) PROVE Front(q) \in K1
        <3>1. r \in Path
            BY <1>1
        <3>2. CASE r = at
            BY <2>3, <3>2, <1>6, <1>9
        <3>3. CASE r # at
            <4>1. r # <<>>
                <5>1. SUFFICES ASSUME r = <<>> PROVE FALSE
                    OBVIOUS
                <5>2. Len(r) < Len(at)
                    BY <1>1, <3>3, <5>1, PathIs, RootPath
                <5>3. QED
                    BY <3>1, <5>1, <5>2, <1>7, <1>16, <2>3
            <4>2. /\ Front(r) \in K /\ Front(r) \in Path /\ Last(r) \in {1, 2}
                  /\ r = Append(Front(r), Last(r))
                BY <3>1, <4>1, ParentPath DEF Proper
            <4>3. D(r) = Append(D(Front(r)), Last(r))
                BY <3>3, <4>2, <1>5
            <4>4. Front(D(r)) = D(Front(r))
                BY <4>2, <4>3, <1>3, ChildPath
            <4>5. QED
                BY <2>3, <4>2, <4>4, <1>9
        <3>4. QED
            BY <3>2, <3>3
    <2>4. QED
        BY <1>16, <2>1, <2>2, <2>3, <1>8, <1>9
<1>17. ASSUME NEW q \in K1, NEW s \in {1, 2} PROVE Append(q, s) \in L1 \cup K1
    <2>1. CASE q = at
        <3>1. s = side \/ s = 3 - side
            OBVIOUS
        <3>2. QED
            BY <2>1, <3>1, <1>6, <1>8, <1>9 DEF new
    <2>2. ASSUME NEW r \in K, q = D(r) PROVE Append(q, s) \in L1 \cup K1
        <3>1. r \in Path /\ Append(r, s) \in L \cup K
            BY <1>1 DEF Proper
        <3>2. CASE Append(r, s) = at
            <4>1. Len(r) < Len(at)
                BY <3>1, <3>2, ChildPath, PathIs
            <4>2. D(r) = r
                BY <3>1, <4>1, <1>7
            <4>3. QED
                BY <2>2, <3>2, <4>2, <1>9
        <3>3. CASE Append(r, s) # at
            <4>1. D(Append(r, s)) = Append(q, s)
                BY <2>2, <3>1, <3>3, <1>5
            <4>2. QED
                BY <3>1, <4>1, <1>8, <1>9
        <3>4. QED
            BY <3>2, <3>3
    <2>3. QED
        BY <2>1, <2>2, <1>9
<1>18. QED
    BY <1>12, <1>13, <1>14, <1>15, <1>16, <1>17 DEF Proper

LEMMA InsertedIs ==
    ASSUME NEW t, Good(t), NEW at \in DOMAIN t.leaf \cup DOMAIN t.split, NEW side \in {1, 2},
           NEW pane \in Panes, pane \notin PanesOf(t), NEW split \in Split, NEW size \in Size,
           NEW u, u = Inserted(t, at, side, pane, split, size)
    PROVE  /\ Good(u)
           /\ PanesOf(u) = PanesOf(t) \cup {pane}
           /\ LeafCount(u) = LeafCount(t) + 1
           /\ u.active = t.active /\ u.dead = t.dead /\ u.zoomed = t.zoomed
<1>. DEFINE L == DOMAIN t.leaf
            K == DOMAIN t.split
            D(q) == Down(at, side, q)
            Old(q) == Up(at, side, q)
            new == Append(at, 3 - side)
            leaf == [q \in {D(r) : r \in L} \cup {new} |-> IF q = new THEN pane ELSE t.leaf[Old(q)]]
            splits == [q \in {D(r) : r \in K} \cup {at} |-> IF q = at THEN split ELSE t.split[Old(q)]]
            pty == [x \in DOMAIN t.pty \cup {pane} |-> IF x = pane THEN size ELSE t.pty[x]]
<1>1. /\ t \in Tab /\ Proper(L, K) /\ at \in Path /\ L \subseteq Path /\ K \subseteq Path
      /\ \A p, q \in L : t.leaf[p] = t.leaf[q] => p = q
      /\ DOMAIN t.pty = PanesOf(t)
      /\ t.leaf \in [L -> Panes] /\ t.split \in [K -> Split] /\ t.pty \in [DOMAIN t.pty -> Size]
      /\ DOMAIN t.pty \subseteq Panes
    BY TabFields DEF Good, ProperTree, Proper
<1>2. u = [t EXCEPT !.leaf = leaf, !.split = splits, !.pty = pty]
    BY DEF Inserted, Down, Up
<1>3. /\ Proper(DOMAIN leaf, DOMAIN splits)
      /\ Cardinality(DOMAIN leaf) = Cardinality(L) + 1
    <2>1. DOMAIN leaf = LeavesAfter(L, at, side) /\ DOMAIN splits = SplitsAfter(K, at, side)
        BY DEF LeavesAfter, SplitsAfter
    <2>. HIDE DEF leaf, splits, L, K
    <2>2. at \in L \cup K
        BY DEF L, K
    <2>3. Proper(L, K) /\ side \in {1, 2}
        BY <1>1
    <2>4. QED
        BY <2>1, <2>2, <2>3, InsertedTree
<1>4. ASSUME NEW r \in Path PROVE D(r) \in Path /\ D(r) # new /\ D(r) # at /\ Old(D(r)) = r
    <2>1. D(r) \in Path
        BY <1>1, DownIs
    <2>2. D(r) # new /\ D(r) # at
        BY <1>1, DownAvoids
    <2>3. Old(D(r)) = r
        BY <1>1, UpOfDown
    <2>4. QED
        BY <2>1, <2>2, <2>3
<1>. HIDE DEF D, Old, new
<1>5. \A r \in L : leaf[D(r)] = t.leaf[r]
    BY <1>1, <1>4
<1>6. leaf[new] = pane
    OBVIOUS
<1>7. DOMAIN leaf = {D(r) : r \in L} \cup {new}
    OBVIOUS
<1>8. leaf \in [DOMAIN leaf -> Panes]
    BY <1>1, <1>4
<1>9. splits \in [DOMAIN splits -> Split]
    BY <1>1, <1>4
<1>10. pty \in [DOMAIN pty -> Size] /\ DOMAIN pty = PanesOf(t) \cup {pane} /\ DOMAIN pty \subseteq Panes
    BY <1>1
<1>11. \A q \in DOMAIN leaf : q = new \/ \E r \in L : q = D(r)
    BY <1>7
<1>. HIDE DEF leaf, splits, pty
<1>12. leaf \in Leaves /\ splits \in Splits /\ pty \in Ptys
    <2>1. DOMAIN leaf \subseteq Path /\ DOMAIN splits \subseteq Path
        BY <1>3 DEF Proper
    <2>2. leaf \in Leaves
        BY <2>1, <1>8 DEF Leaves
    <2>3. splits \in Splits
        BY <2>1, <1>9 DEF Splits
    <2>4. pty \in Ptys
        BY <1>10 DEF Ptys
    <2>5. QED
        BY <2>2, <2>3, <2>4
<1>13. /\ u \in Tab
       /\ u.leaf = leaf /\ u.split = splits /\ u.pty = pty
       /\ u.active = t.active /\ u.dead = t.dead /\ u.zoomed = t.zoomed
    BY <1>1, <1>2, <1>12 DEF Tab
<1>14. \A p, q \in DOMAIN leaf : leaf[p] = leaf[q] => p = q
    <2>1. \A r \in L : t.leaf[r] # pane
        BY DEF PanesOf
    <2>2. QED
        BY <2>1, <1>1, <1>5, <1>6, <1>11
<1>15. {leaf[q] : q \in DOMAIN leaf} = {t.leaf[r] : r \in L} \cup {pane}
    BY <1>5, <1>6, <1>7, <1>11
<1>16. PanesOf(u) = PanesOf(t) \cup {pane}
    BY <1>13, <1>15 DEF PanesOf
<1>17. DOMAIN leaf # {}
    BY <1>7
<1>18. t.zoomed # NoPane => t.zoomed \in PanesOf(t)
    BY DEF Good
<1>19. Good(u)
    BY <1>3, <1>10, <1>13, <1>14, <1>16, <1>17, <1>18 DEF Good, ProperTree
<1>20. LeafCount(u) = LeafCount(t) + 1
    BY <1>3, <1>13 DEF LeafCount
<1>21. QED
    BY <1>13, <1>16, <1>19, <1>20

\* The active index is one of a pane.
InRange(t) == LeafCount(t) > 0 => t.active < LeafCount(t)

LEMMA SetActive ==
    ASSUME NEW t, Good(t), NEW n \in Nat, NEW u, u = [t EXCEPT !.active = n]
    PROVE  /\ Good(u)
           /\ PanesOf(u) = PanesOf(t) /\ LeafCount(u) = LeafCount(t)
           /\ u.leaf = t.leaf /\ u.active = n /\ u.dead = t.dead /\ u.zoomed = t.zoomed
<1>1. /\ u \in Tab
      /\ u.leaf = t.leaf /\ u.split = t.split /\ u.pty = t.pty
      /\ u.active = n /\ u.dead = t.dead /\ u.zoomed = t.zoomed
    BY DEF Good, Tab
<1>2. PanesOf(u) = PanesOf(t) /\ LeafCount(u) = LeafCount(t)
    BY <1>1 DEF PanesOf, LeafCount
<1>3. QED
    BY <1>1, <1>2 DEF Good, ProperTree

LEMMA SplitSizeIs ==
    ASSUME NEW room \in Size, NEW axis \in Axes, NEW second
    PROVE  SplitSize(room, axis, second) \in Split
<1>. DEFINE target == AtLeast(room[axis] \div 2, 1)
            remain == Monus(room[axis], target + 1)
            Part(n) == [room EXCEPT ![axis] = n]
            parts == IF second THEN <<Part(remain), Part(target)>> ELSE <<Part(target), Part(remain)>>
<1>1. room[axis] \in Nat
    BY SizeWith
<1>2. target \in Nat
    <2>. DEFINE n == room[axis]
    <2>1. n \in Nat
        BY <1>1
    <2>. HIDE DEF n
    <2>2. AtLeast(n \div 2, 1) \in Nat
        BY <2>1 DEF AtLeast
    <2>3. QED
        BY <2>2 DEF n
<1>. HIDE DEF target
<1>3. remain \in Nat
    BY <1>1, <1>2 DEF Monus, AtLeast
<1>. HIDE DEF remain
<1>4. Part(remain) \in Size /\ Part(target) \in Size
    BY <1>2, <1>3, SizeWith
<1>. HIDE DEF Part
<1>5. parts \in [{1, 2} -> Size]
    BY <1>4, PairOfSizes
<1>6. SplitSize(room, axis, second) = [axis |-> axis, part |-> parts]
    BY DEF SplitSize, target, remain, Part
<1>. HIDE DEF parts
<1>7. QED
    BY <1>5, <1>6 DEF Split

\* A split that cannot be made changes nothing, or stops in the resize of the
\* whole tab; one that is made adds the pane.
LEMMA SplitAndInsertedIs ==
    ASSUME NEW t, Good(t), NEW i, NEW axis \in Axes, NEW second \in BOOLEAN, NEW top,
           NEW pane \in Panes, pane \notin PanesOf(t), NEW size \in Size,
           NEW u, u = SplitAndInserted(t, i, axis, second, top, pane, size)
    PROVE  /\ Good(u)
           /\ u.dead = t.dead
           /\ InRange(t) => InRange(u)
           /\ \/ Alike(t, u)
              \/ PanesOf(u) = PanesOf(t) \cup {pane}
<1>. DEFINE old == IF second THEN 1 ELSE 2
            split == SplitSize(IF top THEN t.size ELSE Room(t, LeafAt(t, i)), axis, second)
            shrunk == Resized(t, split.part[old])
            at == LeafAt(t, i)
            rooted == [Inserted(shrunk, <<>>, old, pane, split, size) EXCEPT
                         !.active = IF second THEN LeafCount(t) ELSE 0]
            halved == [Inserted(t, at, old, pane, split, split.part[3 - old]) EXCEPT
                         !.pty[t.leaf[at]] = split.part[old],
                         !.active = IF second THEN i + 1 ELSE @]
            Kept == u = t
            Shrunk == top /\ shrunk.fault # "none" /\ u = shrunk
            Rooted == top /\ u = rooted
            Halved == HasIndex(t, i) /\ u = halved
<1>1. Kept \/ Shrunk \/ Rooted \/ Halved
    BY DEF SplitAndInserted
<1>2. t \in Tab /\ ProperTree(t) /\ t.size \in Size
    BY TabFields DEF Good
<1>3. LeafCount(t) \in Nat /\ t.active \in Nat
    BY <1>2, LeafCountIs, TabFields DEF Good
<1>4. old \in {1, 2} /\ 3 - old \in {1, 2}
    OBVIOUS
<1>5. HasIndex(t, i) => at \in DOMAIN t.leaf
    BY PaneAtIs
<1>. HIDE DEF old
<1>6. top \/ HasIndex(t, i) => split \in Split
    <2>1. HasIndex(t, i) => Room(t, at) \in Size
        BY <1>2, <1>5, RoomIs
    <2>2. QED
        BY <1>2, <2>1, SplitSizeIs
<1>. HIDE DEF split
<1>7. top \/ HasIndex(t, i) => split.part[old] \in Size /\ split.part[3 - old] \in Size
    BY <1>4, <1>6, SplitIs
<1>8. CASE Kept
    <2>1. Alike(t, t)
        BY <1>2 DEF Alike
    <2>2. QED
        BY <1>8, <2>1
<1>9. top => Alike(t, shrunk)
    BY <1>7, ResizedIs
<1>10. CASE Shrunk
    <2>1. Alike(t, u)
        BY <1>9, <1>10
    <2>2. Good(u) /\ LeafCount(u) = LeafCount(t) /\ u.active = t.active /\ u.dead = t.dead
        BY <2>1, AlikeGood DEF Alike
    <2>3. QED
        BY <2>1, <2>2 DEF InRange
<1>. HIDE DEF shrunk
<1>11. CASE Rooted
    <2>. DEFINE v == Inserted(shrunk, <<>>, old, pane, split, size)
                n == IF second THEN LeafCount(t) ELSE 0
    <2>1. Good(shrunk) /\ PanesOf(shrunk) = PanesOf(t) /\ LeafCount(shrunk) = LeafCount(t) /\ shrunk.dead = t.dead
        BY <1>9, <1>11, AlikeGood DEF Alike
    <2>2. <<>> \in DOMAIN shrunk.leaf \cup DOMAIN shrunk.split
        BY <2>1 DEF Good, ProperTree, Proper
    <2>3. /\ Good(v)
          /\ PanesOf(v) = PanesOf(t) \cup {pane}
          /\ LeafCount(v) = LeafCount(t) + 1
          /\ v.dead = t.dead
        BY <1>4, <1>6, <1>11, <2>1, <2>2, InsertedIs
    <2>4. u = [v EXCEPT !.active = n]
        BY <1>11
    <2>5. n \in Nat /\ n < LeafCount(t) + 1
        BY <1>3
    <2>. HIDE DEF v, n
    <2>6. /\ Good(u) /\ PanesOf(u) = PanesOf(v) /\ LeafCount(u) = LeafCount(v)
          /\ u.active = n /\ u.dead = v.dead
        BY <2>3, <2>4, <2>5, SetActive
    <2>7. QED
        BY <2>3, <2>5, <2>6 DEF InRange
<1>12. CASE Halved
    <2>. DEFINE v == Inserted(t, at, old, pane, split, split.part[3 - old])
                w == [v EXCEPT !.pty[t.leaf[at]] = split.part[old]]
                n == IF second THEN i + 1 ELSE t.active
    <2>1. at \in DOMAIN t.leaf \cup DOMAIN t.split /\ t.leaf[at] \in PanesOf(t)
        BY <1>5, <1>12 DEF PanesOf
    <2>. HIDE DEF at
    <2>2. /\ Good(v)
          /\ PanesOf(v) = PanesOf(t) \cup {pane}
          /\ LeafCount(v) = LeafCount(t) + 1
          /\ v.dead = t.dead /\ v.active = t.active
        BY <1>4, <1>6, <1>7, <1>12, <2>1, InsertedIs
    <2>3. v \in Tab /\ t.leaf[at] \in DOMAIN v.pty
        BY <2>1, <2>2 DEF Good
    <2>4. u = [w EXCEPT !.active = n]
      <3>1. u = [v EXCEPT !.pty[t.leaf[at]] = split.part[old], !.active = IF second THEN i + 1 ELSE @]
        BY <1>12 DEF at
      <3>. HIDE DEF v
      <3>2. QED
        BY <3>1, <2>2, <2>3 DEF Tab
    <2>. HIDE DEF v
    <2>5. Alike(v, w)
        BY <1>7, <1>12, <2>3, PtySet
    <2>6. Good(w) /\ PanesOf(w) = PanesOf(v) /\ LeafCount(w) = LeafCount(v) /\ w.dead = v.dead
        BY <2>2, <2>5, AlikeGood DEF Alike
    <2>7. n \in Nat /\ (InRange(t) => n < LeafCount(t) + 1)
        BY <1>3, <1>12 DEF HasIndex, InRange
    <2>. HIDE DEF w, n
    <2>8. /\ Good(u) /\ PanesOf(u) = PanesOf(w) /\ LeafCount(u) = LeafCount(w)
          /\ u.active = n /\ u.dead = w.dead
        BY <2>4, <2>6, <2>7, SetActive
    <2>9. QED
        BY <2>2, <2>6, <2>7, <2>8 DEF InRange
<1>13. QED
    BY <1>1, <1>8, <1>10, <1>11, <1>12

-------------------------------------------------------------------------------
\* A pane less: its sibling goes up into the place of the split.

LeavesBefore(L, up, side) == {q \in Path : Down(up, side, q) \in L}

LEMMA LiftedTree ==
    ASSUME NEW L, NEW K, Proper(L, K), NEW p \in L, p # <<>>,
           NEW up, up = Front(p), NEW side, side = 3 - Last(p),
           NEW L1, L1 = LeavesBefore(L, up, side), NEW K1, K1 = LeavesBefore(K, up, side)
    PROVE  /\ Proper(L1, K1)
           /\ Cardinality(L1) = Cardinality(L) - 1
           /\ up \in L1 \cup K1
           /\ \A q \in L1 : Down(up, side, q) \in L \ {p}
           /\ \A r \in L \ {p} : Up(up, side, r) \in L1 /\ Down(up, side, Up(up, side, r)) = r
<1>. DEFINE D(q) == Down(up, side, q)
            U(q) == Up(up, side, q)
<1>1. L \subseteq Path /\ K \subseteq Path /\ IsFiniteSet(L) /\ L \cap K = {}
    BY DEF Proper
<1>2. /\ p \in Path /\ up \in Path /\ up \in K /\ up \in Path
      /\ side \in {1, 2} /\ 3 - side = Last(p) /\ 3 - side \in {1, 2}
      /\ p = Append(up, 3 - side) /\ Len(p) = Len(up) + 1 /\ Len(up) \in Nat
    <2>1. up \in K
        BY DEF Proper
    <2>2. Last(p) \in {1, 2} /\ p = Append(up, Last(p)) /\ Len(p) = Len(up) + 1 /\ p \in Path /\ up \in Path
        BY <1>1, ParentPath
    <2>3. QED
        BY <2>1, <2>2, PathIs
<1>3. ASSUME NEW q \in Path PROVE D(q) \in Path /\ D(q) # p /\ D(q) # up
    <2>1. D(q) \in Path
        BY <1>2, DownIs
    <2>2. D(q) # Append(up, 3 - side) /\ D(q) # up
        BY <1>2, DownAvoids
    <2>3. QED
        BY <1>2, <2>1, <2>2
<1>4. \A q, r \in Path : D(q) = D(r) => q = r
    BY <1>2, DownInjective
<1>5. \A r \in Path, s \in {1, 2} : Append(r, s) # up => D(Append(r, s)) = Append(D(r), s)
    BY <1>2, DownOfChild
<1>6. D(up) = Append(up, side)
    BY <1>2, DownAt
<1>7. \A r \in Path : Len(r) < Len(up) => D(r) = r
    BY <1>2, DownShorter
<1>8. \A q : q \in L1 <=> q \in Path /\ D(q) \in L
    BY DEF LeavesBefore
<1>9. \A q : q \in K1 <=> q \in Path /\ D(q) \in K
    BY DEF LeavesBefore
<1>10. ASSUME NEW r \in L \ {p} PROVE U(r) \in Path /\ D(U(r)) = r
    <2>1. r \in Path /\ r # up
        BY <1>1, <1>2
    <2>2. ~IsPrefix(p, r)
        BY NothingBelowLeaf
    <2>3. ~IsPrefix(up, r) \/ IsPrefix(Append(up, side), r)
        <3>1. SUFFICES ASSUME IsPrefix(up, r) PROVE IsPrefix(Append(up, side), r)
            OBVIOUS
        <3>2. Len(up) <= Len(r) /\ Len(r) \in Nat /\ \A i \in 1..Len(up) : up[i] = r[i]
            BY <1>2, <2>1, <3>1, PrefixIs, PathIs
        <3>3. Len(up) # Len(r)
            BY <1>2, <2>1, <3>2, PathEqual
        <3>4. Len(r) > Len(up) /\ r[Len(up) + 1] \in {1, 2}
            BY <1>2, <2>1, <3>2, <3>3, PathIs
        <3>5. r[Len(up) + 1] # 3 - side
            <4>. DEFINE other == 3 - side
            <4>1. other \in {1, 2} /\ p = Append(up, other)
                BY <1>2
            <4>. HIDE DEF other
            <4>2. IsPrefix(Append(up, other), r) <=>
                    IsPrefix(up, r) /\ Len(r) > Len(up) /\ r[Len(up) + 1] = other
                BY <1>2, <2>1, <4>1, BelowOneSide
            <4>3. r[Len(up) + 1] # other
                BY <2>2, <3>1, <3>4, <4>1, <4>2
            <4>4. QED
                BY <4>3 DEF other
        <3>6. r[Len(up) + 1] = side
            BY <1>2, <3>4, <3>5
        <3>7. QED
            BY <1>2, <2>1, <3>1, <3>4, <3>6, BelowOneSide
    <2>4. QED
        BY <1>2, <2>1, <2>3, UpIs, DownOfUp
<1>11. \A q \in L1 : D(q) \in L \ {p}
    BY <1>3, <1>8
<1>12. \A r \in L \ {p} : U(r) \in L1 /\ D(U(r)) = r
    BY <1>8, <1>10
<1>. HIDE DEF D, U
<1>13. IsFiniteSet(L1) /\ Cardinality(L1) = Cardinality(L) - 1
    <2>. DEFINE f == [r \in L \ {p} |-> U(r)]
    <2>1. IsFiniteSet(L \ {p}) /\ Cardinality(L \ {p}) = Cardinality(L) - 1
        BY <1>1, FS_RemoveElement
    <2>2. f \in [L \ {p} -> L1]
        BY <1>12
    <2>3. \A x, y \in L \ {p} : f[x] = f[y] => x = y
        BY <1>12
    <2>4. \A y \in L1 : \E x \in L \ {p} : f[x] = y
        <3>1. ASSUME NEW y \in L1 PROVE \E x \in L \ {p} : f[x] = y
            <4>1. D(y) \in L \ {p} /\ y \in Path
                BY <1>8, <1>11
            <4>2. D(U(D(y))) = D(y) /\ U(D(y)) \in Path
                BY <4>1, <1>8, <1>12
            <4>3. U(D(y)) = y
                BY <4>1, <4>2, <1>4
            <4>4. QED
                BY <4>1, <4>3
        <3>2. QED
            BY <3>1
    <2>. DEFINE M == L \ {p}
    <2>. HIDE DEF f, M
    <2>5. /\ IsFiniteSet(M) /\ f \in [M -> L1]
          /\ \A x, y \in M : f[x] = f[y] => x = y
          /\ \A y \in L1 : \E x \in M : f[x] = y
        BY <2>1, <2>2, <2>3, <2>4 DEF M
    <2>6. IsFiniteSet(L1) /\ Cardinality(L1) = Cardinality(M)
        BY <2>5, SameSize
    <2>7. QED
        BY <2>1, <2>6 DEF M
<1>14. up \in L1 \cup K1
    <2>1. Append(up, side) \in L \cup K
        BY <1>2 DEF Proper
    <2>2. QED
        BY <1>2, <1>6, <1>8, <1>9, <2>1
<1>15. L1 \subseteq Path /\ K1 \subseteq Path /\ L1 \cap K1 = {}
    BY <1>1, <1>8, <1>9
<1>16. <<>> \in L1 \cup K1
    <2>1. CASE up = <<>>
        BY <2>1, <1>14
    <2>2. CASE up # <<>>
        <3>1. Len(<<>>) < Len(up) /\ <<>> \in Path
            BY <1>2, <2>2, PathIs, RootPath
        <3>2. D(<<>>) = <<>>
            BY <3>1, <1>7
        <3>3. <<>> \in L \cup K
            BY DEF Proper
        <3>4. QED
            BY <3>1, <3>2, <3>3, <1>8, <1>9
    <2>3. QED
        BY <2>1, <2>2
<1>17. ASSUME NEW q \in L1 \cup K1, q # <<>> PROVE Front(q) \in K1
    <2>1. q \in Path /\ D(q) \in L \cup K
        BY <1>8, <1>9
    <2>2. /\ Front(q) \in Path /\ Last(q) \in {1, 2} /\ q = Append(Front(q), Last(q))
          /\ Len(q) = Len(Front(q)) + 1 /\ Len(Front(q)) \in Nat
        BY <2>1, <1>17, ParentPath, PathIs
    <2>3. CASE q = up
        <3>1. D(Front(q)) = Front(q)
            BY <2>2, <2>3, <1>7
        <3>2. Front(q) \in K
            BY <2>3, <1>2, <1>17 DEF Proper
        <3>3. QED
            BY <2>2, <3>1, <3>2, <1>9
    <2>4. CASE q # up
        <3>1. D(q) = Append(D(Front(q)), Last(q))
            BY <2>2, <2>4, <1>5
        <3>2. D(q) # <<>> /\ Front(D(q)) = D(Front(q))
            BY <2>2, <3>1, <1>3, ChildPath
        <3>3. D(Front(q)) \in K
            BY <2>1, <3>2 DEF Proper
        <3>4. QED
            BY <2>2, <3>3, <1>9
    <2>5. QED
        BY <2>3, <2>4
<1>18. ASSUME NEW q \in K1, NEW s \in {1, 2} PROVE Append(q, s) \in L1 \cup K1
    <2>1. q \in Path /\ D(q) \in K /\ Append(q, s) \in Path
        BY <1>9, ChildPath
    <2>2. CASE Append(q, s) = up
        BY <2>2, <1>14
    <2>3. CASE Append(q, s) # up
        <3>1. D(Append(q, s)) = Append(D(q), s)
            BY <2>1, <2>3, <1>5
        <3>2. Append(D(q), s) \in L \cup K
            BY <2>1 DEF Proper
        <3>3. QED
            BY <2>1, <3>1, <3>2, <1>8, <1>9
    <2>4. QED
        BY <2>2, <2>3
<1>19. Proper(L1, K1)
    BY <1>13, <1>15, <1>16, <1>17, <1>18 DEF Proper
<1>20. QED
    BY <1>11, <1>12, <1>13, <1>14, <1>19 DEF D, U

\* The positions of what is lifted.
KeptAfter(F, up, sibling) ==
    {q \in F : ~IsPrefix(up, q)} \cup {Rebased(q, sibling, up) : q \in {r \in F : IsPrefix(sibling, r)}}

LEMMA LiftedDomain ==
    ASSUME NEW up \in Path, NEW side \in {1, 2}, NEW F, F \subseteq Path
    PROVE  KeptAfter(F, up, Append(up, side)) = LeavesBefore(F, up, side)
<1>. DEFINE G == KeptAfter(F, up, Append(up, side))
<1>0. G = {q \in F : ~IsPrefix(up, q)}
            \cup {Rebased(q, Append(up, side), up) : q \in {r \in F : IsPrefix(Append(up, side), r)}}
    BY DEF KeptAfter
<1>. HIDE DEF G
<1>1. ASSUME NEW q \in F, ~IsPrefix(up, q) PROVE q \in LeavesBefore(F, up, side)
    BY <1>1, DownIs DEF LeavesBefore
<1>2. ASSUME NEW r \in F, IsPrefix(Append(up, side), r)
      PROVE  Rebased(r, Append(up, side), up) \in LeavesBefore(F, up, side)
    <2>1. Up(up, side, r) = Rebased(r, Append(up, side), up)
        BY <1>2 DEF Up
    <2>2. r \in Path /\ Up(up, side, r) \in Path
        BY UpIs
    <2>3. Down(up, side, Up(up, side, r)) = r
        BY <1>2, <2>2, DownOfUp
    <2>4. QED
        BY <2>1, <2>2, <2>3 DEF LeavesBefore
<1>3. ASSUME NEW q \in LeavesBefore(F, up, side) PROVE q \in G
    <2>1. q \in Path /\ Down(up, side, q) \in F
        BY DEF LeavesBefore
    <2>2. CASE ~IsPrefix(up, q)
        BY <2>1, <2>2, <1>0, DownIs
    <2>3. CASE IsPrefix(up, q)
        <3>. DEFINE r == Down(up, side, q)
        <3>1. IsPrefix(Append(up, side), r)
            BY <2>1, <2>3, DownBelow
        <3>2. Up(up, side, r) = q
            BY <2>1, UpOfDown
        <3>3. q = Rebased(r, Append(up, side), up)
            BY <3>1, <3>2 DEF Up
        <3>. HIDE DEF r
        <3>4. r \in {x \in F : IsPrefix(Append(up, side), x)}
            BY <2>1, <3>1 DEF r
        <3>5. QED
            BY <3>3, <3>4, <1>0
    <2>4. QED
        BY <2>2, <2>3
<1>4. \A q : q \in G => q \in LeavesBefore(F, up, side)
    BY <1>0, <1>1, <1>2
<1>5. QED
    BY <1>3, <1>4 DEF G

LEMMA LiftedIs ==
    ASSUME NEW t, Good(t), NEW p \in DOMAIN t.leaf, p # <<>>,
           NEW up, up = Front(p), NEW side, side = 3 - Last(p), NEW u, u = Lifted(t, p)
    PROVE  /\ u \in Tab
           /\ ProperTree(u)
           /\ \A q, r \in DOMAIN u.leaf : u.leaf[q] = u.leaf[r] => q = r
           /\ DOMAIN u.pty = PanesOf(u)
           /\ PanesOf(u) = PanesOf(t) \ {t.leaf[p]}
           /\ LeafCount(u) = LeafCount(t) - 1
           /\ up \in DOMAIN u.leaf \cup DOMAIN u.split
           /\ DOMAIN u.leaf = LeavesBefore(DOMAIN t.leaf, up, side)
           /\ \A q \in DOMAIN u.leaf : u.leaf[q] = t.leaf[Down(up, side, q)]
           /\ u.active = t.active /\ u.dead = t.dead /\ u.zoomed = t.zoomed
<1>. DEFINE L == DOMAIN t.leaf
            K == DOMAIN t.split
            D(q) == Down(up, side, q)
            sibling == Append(up, 3 - Last(p))
            KeptOf(F) == KeptAfter(F, up, sibling)
            leaf == [q \in KeptOf(L) |-> t.leaf[D(q)]]
            splits == [q \in KeptOf(K) |-> t.split[D(q)]]
            pty == [x \in DOMAIN t.pty \ {t.leaf[p]} |-> t.pty[x]]
<1>1. /\ t \in Tab /\ Proper(L, K) /\ L \subseteq Path /\ K \subseteq Path
      /\ \A q, r \in L : t.leaf[q] = t.leaf[r] => q = r
      /\ DOMAIN t.pty = PanesOf(t)
      /\ t.leaf \in [L -> Panes] /\ t.split \in [K -> Split] /\ t.pty \in [DOMAIN t.pty -> Size]
      /\ DOMAIN t.pty \subseteq Panes
    BY TabFields DEF Good, ProperTree, Proper
<1>2. up \in Path /\ side \in {1, 2} /\ sibling = Append(up, side)
    <2>1. p \in Path
        BY <1>1
    <2>2. up \in Path /\ Last(p) \in {1, 2}
        BY <2>1, ParentPath
    <2>3. QED
        BY <2>2
<1>3. u = [t EXCEPT !.leaf = leaf, !.split = splits, !.pty = pty]
    BY <1>2 DEF Lifted, Down, KeptAfter
<1>4. KeptOf(L) = LeavesBefore(L, up, side) /\ KeptOf(K) = LeavesBefore(K, up, side)
    BY <1>1, <1>2, LiftedDomain
<1>. HIDE DEF KeptOf, L, K, D
<1>5. DOMAIN leaf = LeavesBefore(L, up, side) /\ DOMAIN splits = LeavesBefore(K, up, side)
    BY <1>4
<1>6. \A q \in DOMAIN leaf : leaf[q] = t.leaf[D(q)]
    OBVIOUS
<1>7. \A q \in DOMAIN splits : splits[q] = t.split[D(q)]
    OBVIOUS
<1>8. pty \in [PanesOf(t) \ {t.leaf[p]} -> Size] /\ DOMAIN pty = PanesOf(t) \ {t.leaf[p]}
    BY <1>1
<1>9. leaf = [q \in DOMAIN leaf |-> leaf[q]] /\ splits = [q \in DOMAIN splits |-> splits[q]]
    OBVIOUS
<1>. HIDE DEF leaf, splits, pty
<1>10. /\ Proper(DOMAIN leaf, DOMAIN splits)
       /\ Cardinality(DOMAIN leaf) = Cardinality(L) - 1
       /\ up \in DOMAIN leaf \cup DOMAIN splits
       /\ \A q \in DOMAIN leaf : D(q) \in L \ {p}
       /\ \A r \in L \ {p} : Up(up, side, r) \in DOMAIN leaf /\ D(Up(up, side, r)) = r
    BY <1>1, <1>5, LiftedTree DEF D, L
<1>11. \A q \in DOMAIN splits : q \in Path /\ D(q) \in K
    BY <1>5 DEF LeavesBefore, D
<1>12. \A q \in DOMAIN leaf : leaf[q] \in Panes
    BY <1>1, <1>6, <1>10
<1>13. \A q \in DOMAIN splits : splits[q] \in Split
    BY <1>1, <1>7, <1>11
<1>14. leaf \in Leaves /\ splits \in Splits /\ pty \in Ptys
    <2>1. DOMAIN leaf \subseteq Path /\ DOMAIN splits \subseteq Path
        BY <1>10 DEF Proper
    <2>2. leaf \in [DOMAIN leaf -> Panes] /\ splits \in [DOMAIN splits -> Split]
        BY <1>9, <1>12, <1>13
    <2>3. leaf \in Leaves
        BY <2>1, <2>2 DEF Leaves
    <2>4. splits \in Splits
        BY <2>1, <2>2 DEF Splits
    <2>5. pty \in Ptys
        <3>1. PanesOf(t) \ {t.leaf[p]} \in SUBSET Panes
            BY <1>1
        <3>2. QED
            BY <3>1, <1>8 DEF Ptys
    <2>6. QED
        BY <2>3, <2>4, <2>5
<1>15. /\ u \in Tab
       /\ u.leaf = leaf /\ u.split = splits /\ u.pty = pty
       /\ u.active = t.active /\ u.dead = t.dead /\ u.zoomed = t.zoomed
    BY <1>1, <1>3, <1>14 DEF Tab
<1>16. ASSUME NEW q \in DOMAIN leaf, NEW r \in DOMAIN leaf, leaf[q] = leaf[r] PROVE q = r
    <2>1. D(q) = D(r)
        BY <1>1, <1>6, <1>10, <1>16
    <2>2. q \in Path /\ r \in Path
        BY <1>10 DEF Proper
    <2>3. QED
        BY <1>2, <2>1, <2>2, DownInjective DEF D
<1>17. {leaf[q] : q \in DOMAIN leaf} = {t.leaf[r] : r \in L} \ {t.leaf[p]}
    <2>1. ASSUME NEW q \in DOMAIN leaf PROVE leaf[q] \in {t.leaf[r] : r \in L} \ {t.leaf[p]}
        <3>1. D(q) \in L /\ D(q) # p /\ leaf[q] = t.leaf[D(q)] /\ p \in L
            BY <1>6, <1>10 DEF L
        <3>2. QED
            BY <3>1, <1>1
    <2>2. ASSUME NEW r \in L \ {p} PROVE t.leaf[r] \in {leaf[q] : q \in DOMAIN leaf}
        <3>1. Up(up, side, r) \in DOMAIN leaf /\ D(Up(up, side, r)) = r
            BY <1>10
        <3>2. leaf[Up(up, side, r)] = t.leaf[r]
            BY <3>1, <1>6
        <3>3. QED
            BY <3>1, <3>2
    <2>3. QED
        BY <2>1, <2>2
<1>18. PanesOf(u) = PanesOf(t) \ {t.leaf[p]}
    BY <1>15, <1>17 DEF PanesOf, L
<1>19. LeafCount(u) = LeafCount(t) - 1
    BY <1>10, <1>15 DEF LeafCount, L
<1>20. QED
    BY <1>5, <1>6, <1>8, <1>10, <1>15, <1>16, <1>18, <1>19 DEF ProperTree, L, D

\* The leaves after the one that goes move down by one, the others stay.
LEMMA LiftedIndex ==
    ASSUME NEW t, Good(t), NEW p \in DOMAIN t.leaf, p # <<>>, NEW u, u = Lifted(t, p),
           NEW r \in DOMAIN t.leaf, r # p
    PROVE  \E q \in DOMAIN u.leaf :
             /\ u.leaf[q] = t.leaf[r]
             /\ LeafIndex(u, q) = LeafIndex(t, r) - (IF Precedes(p, r) THEN 1 ELSE 0)
<1>. DEFINE L == DOMAIN t.leaf
            K == DOMAIN t.split
            up == Front(p)
            side == 3 - Last(p)
            q == Up(up, side, r)
            D(x) == Down(up, side, x)
            before == {x \in DOMAIN u.leaf : Precedes(x, q)}
            all == {x \in L : Precedes(x, r)}
            f == [x \in before |-> D(x)]
<1>1. Proper(L, K) /\ L \subseteq Path /\ IsFiniteSet(L)
    BY DEF Good, ProperTree, Proper
<1>2. up \in Path /\ side \in {1, 2}
    <2>1. p \in Path
        BY <1>1
    <2>2. up \in Path /\ Last(p) \in {1, 2}
        BY <2>1, ParentPath
    <2>3. QED
        BY <2>2
<1>. HIDE DEF up, side
<1>3. DOMAIN u.leaf = LeavesBefore(L, up, side) /\ \A x \in DOMAIN u.leaf : u.leaf[x] = t.leaf[D(x)]
    BY LiftedIs DEF up, side
<1>4. /\ \A x \in DOMAIN u.leaf : x \in Path /\ D(x) \in L \ {p}
      /\ \A x \in L \ {p} : Up(up, side, x) \in DOMAIN u.leaf /\ D(Up(up, side, x)) = x
    <2>. DEFINE L1 == LeavesBefore(L, up, side)
    <2>1. /\ \A x \in L1 : D(x) \in L \ {p}
          /\ \A x \in L \ {p} : Up(up, side, x) \in L1 /\ D(Up(up, side, x)) = x
        BY <1>1, LiftedTree DEF up, side
    <2>2. \A x \in L1 : x \in Path
        BY DEF LeavesBefore
    <2>3. QED
        BY <2>1, <2>2, <1>3
<1>5. q \in DOMAIN u.leaf /\ D(q) = r /\ q \in Path
    BY <1>4
<1>6. u.leaf[q] = t.leaf[r]
    BY <1>3, <1>5
<1>. HIDE DEF q, D
<1>7. \A x \in DOMAIN u.leaf : Precedes(x, q) <=> Precedes(D(x), r)
    BY <1>2, <1>4, <1>5, DownKeepsOrder DEF D
<1>8. IsFiniteSet(before)
    <2>1. before \in SUBSET DOMAIN u.leaf
        OBVIOUS
    <2>2. IsFiniteSet(DOMAIN u.leaf)
        BY LiftedIs DEF ProperTree, Proper
    <2>. HIDE DEF before
    <2>3. QED
        BY <2>1, <2>2, FS_Subset
<1>9. Cardinality(all \ {p}) = Cardinality(before)
    <2>. DEFINE M == all \ {p}
    <2>1. f \in [before -> M]
        BY <1>4, <1>7
    <2>2. \A x, y \in before : f[x] = f[y] => x = y
        <3>1. \A x, y \in before : D(x) = D(y) => x = y
            BY <1>2, <1>4, DownInjective DEF D
        <3>2. QED
            BY <3>1
    <2>3. ASSUME NEW y \in M PROVE \E x \in before : f[x] = y
        <3>1. y \in L \ {p} /\ Precedes(y, r)
            OBVIOUS
        <3>2. Up(up, side, y) \in DOMAIN u.leaf /\ D(Up(up, side, y)) = y
            BY <3>1, <1>4
        <3>3. Up(up, side, y) \in before
            BY <3>1, <3>2, <1>7
        <3>4. QED
            BY <3>2, <3>3
    <2>. HIDE DEF f, before, M
    <2>4. \A y \in M : \E x \in before : f[x] = y
        BY <2>3
    <2>5. Cardinality(M) = Cardinality(before)
        BY <1>8, <2>1, <2>2, <2>4, SameSize
    <2>6. QED
        BY <2>5 DEF M
<1>10. IsFiniteSet(all)
    <2>1. all \in SUBSET L
        OBVIOUS
    <2>. HIDE DEF all
    <2>2. QED
        BY <1>1, <2>1, FS_Subset
<1>11. p \in all <=> Precedes(p, r)
    OBVIOUS
<1>12. LeafIndex(u, q) = Cardinality(before) /\ LeafIndex(t, r) = Cardinality(all)
    BY DEF LeafIndex
<1>. HIDE DEF before, all
<1>13. CASE p \in all
    <2>1. Cardinality(all \ {p}) = Cardinality(all) - 1
        BY <1>10, <1>13, FS_RemoveElement
    <2>2. QED
        BY <2>1, <1>5, <1>6, <1>9, <1>11, <1>12, <1>13
<1>14. CASE p \notin all
    <2>1. all \ {p} = all
        BY <1>14
    <2>2. Cardinality(all) \in Nat
        BY <1>10, FS_CardinalityType
    <2>3. Cardinality(before) = Cardinality(all)
        BY <2>1, <1>9, Zenon
    <2>4. Cardinality(before) = Cardinality(all) - 0 /\ ~Precedes(p, r)
        BY <2>2, <2>3, <1>11, <1>14
    <2>5. QED
        BY <2>4, <1>5, <1>6, <1>12
<1>15. QED
    BY <1>13, <1>14

LEMMA UnsplitIs ==
    ASSUME NEW t, Good(t), NEW p \in DOMAIN t.leaf, p # <<>>, NEW v, v = Unsplit(t, p)
    PROVE  /\ Good(v)
           /\ v.leaf = Lifted(t, p).leaf
           /\ v.active = t.active /\ v.dead = t.dead
           /\ Front(p) \in DOMAIN v.leaf \cup DOMAIN v.split
<1>. DEFINE up == Front(p)
            u == Lifted(t, p)
            zoomed == IF t.zoomed = t.leaf[p] THEN NoPane ELSE t.zoomed
            before == IF t.zoomed = t.leaf[p] THEN InitialSize ELSE t.before
            w == [u EXCEPT !.zoomed = zoomed, !.before = before]
            whole == Whole(t.split[up])
<1>1. /\ u \in Tab
      /\ ProperTree(u)
      /\ \A q, r \in DOMAIN u.leaf : u.leaf[q] = u.leaf[r] => q = r
      /\ DOMAIN u.pty = PanesOf(u)
      /\ PanesOf(u) = PanesOf(t) \ {t.leaf[p]}
      /\ up \in DOMAIN u.leaf \cup DOMAIN u.split
      /\ u.active = t.active /\ u.dead = t.dead /\ u.zoomed = t.zoomed
    BY LiftedIs
<1>2. t \in Tab /\ ProperTree(t) /\ (t.zoomed # NoPane => t.zoomed \in PanesOf(t))
    BY DEF Good
<1>3. InitialSize \in Size
    BY SplitTreeAssumption DEF Size
<1>4. zoomed \in Panes \cup {NoPane} /\ before \in Size /\ (zoomed # NoPane => zoomed \in PanesOf(u))
    <2>1. t.zoomed \in Panes \cup {NoPane} /\ t.before \in Size
        BY <1>2, TabFields
    <2>2. QED
        BY <2>1, <1>1, <1>2, <1>3
<1>. DEFINE lifted == [u EXCEPT !.zoomed = IF @ = t.leaf[p] THEN NoPane ELSE @,
                                !.before = IF t.zoomed = t.leaf[p] THEN InitialSize ELSE @]
<1>0. v = IF up \in DOMAIN lifted.leaf THEN [lifted EXCEPT !.pty[lifted.leaf[up]] = whole]
          ELSE Fit(lifted, up, whole)
    BY DEF Unsplit
<1>5. lifted = w
    <2>1. u.before = t.before
        BY <1>2 DEF Lifted, Tab
    <2>. HIDE DEF u
    <2>2. QED
        BY <1>1, <2>1 DEF Tab
<1>6. v = IF up \in DOMAIN w.leaf THEN [w EXCEPT !.pty[w.leaf[up]] = whole] ELSE Fit(w, up, whole)
  <2>. HIDE DEF lifted, w
  <2>. QED
    BY <1>0, <1>5
<1>. HIDE DEF u, zoomed, before
<1>7. /\ w \in Tab
      /\ w.leaf = u.leaf /\ w.split = u.split /\ w.pty = u.pty
      /\ w.active = u.active /\ w.dead = u.dead /\ w.zoomed = zoomed
    BY <1>1, <1>4 DEF Tab
<1>. HIDE DEF w
<1>8. PanesOf(w) = PanesOf(u)
    BY <1>7 DEF PanesOf
<1>9. Good(w)
    BY <1>1, <1>4, <1>7, <1>8 DEF Good, ProperTree
<1>10. whole \in Size
    <2>1. up \in DOMAIN t.split
        BY <1>2 DEF ProperTree, Proper
    <2>2. t.split[up] \in Split
        BY <2>1, <1>2, TabFields
    <2>3. QED
        BY <2>2, SplitIs
<1>. HIDE DEF whole, up
<1>11. Alike(w, v)
    <2>1. CASE up \in DOMAIN w.leaf
        <3>1. w.leaf[up] \in DOMAIN w.pty
            BY <2>1, <1>9 DEF Good, PanesOf
        <3>2. QED
            BY <2>1, <3>1, <1>6, <1>7, <1>10, PtySet
    <2>2. CASE up \notin DOMAIN w.leaf
        <3>1. up \in DOMAIN w.split
            BY <2>2, <1>1, <1>7
        <3>2. QED
            BY <2>2, <3>1, <1>6, <1>7, <1>10, FitIs
    <2>3. QED
        BY <2>1, <2>2
<1>12. Good(v)
    BY <1>9, <1>11, AlikeGood
<1>13. v.leaf = u.leaf /\ DOMAIN v.split = DOMAIN u.split /\ v.active = t.active /\ v.dead = t.dead
    BY <1>1, <1>7, <1>11 DEF Alike
<1>14. QED
    BY <1>1, <1>12, <1>13 DEF u, up

LEMMA EmptiedIs ==
    ASSUME NEW t, Good(t), <<>> \in DOMAIN t.leaf
    PROVE  /\ Gone(Emptied(t))
           /\ Emptied(t).active = t.active /\ Emptied(t).dead = t.dead
<1>1. t \in Tab /\ Proper(DOMAIN t.leaf, DOMAIN t.split)
    BY DEF Good, ProperTree
<1>2. DOMAIN t.split = {}
    <2>1. SUFFICES ASSUME NEW q \in DOMAIN t.split PROVE FALSE
        OBVIOUS
    <2>2. q \in Path /\ <<>> \in Path
        BY <1>1, RootPath DEF Proper
    <2>3. IsPrefix(<<>>, q)
        BY <2>2, PathIs, RootPath, PrefixIs
    <2>4. q = <<>>
        BY <1>1, <2>3, NothingBelowLeaf
    <2>5. QED
        BY <1>1, <2>4 DEF Proper
<1>. DEFINE leaf == [q \in {} |-> NoPane]
            pty == [x \in {} |-> t.size]
<1>3. leaf \in [{} -> Panes] /\ pty \in [{} -> Size]
    OBVIOUS
<1>4. leaf \in Leaves /\ pty \in Ptys
    <2>1. leaf \in Leaves
        BY <1>3 DEF Leaves
    <2>2. pty \in Ptys
        BY <1>3 DEF Ptys
    <2>3. QED
        BY <2>1, <2>2
<1>5. DOMAIN leaf = {} /\ DOMAIN pty = {}
    OBVIOUS
<1>6. Emptied(t) = [t EXCEPT !.leaf = leaf, !.pty = pty, !.zoomed = NoPane]
    BY DEF Emptied
<1>. HIDE DEF leaf, pty
<1>7. QED
    BY <1>1, <1>2, <1>4, <1>5, <1>6 DEF Gone, Tab

-------------------------------------------------------------------------------
\* The preorder walk.

LEMMA MaxIs ==
    ASSUME NEW N \in Nat, NEW T, T \subseteq 1..N, T # {}
    PROVE  Max(T) \in T /\ \A y \in T : y <= Max(T)
<1>. DEFINE S == {k \in 0..N : (\E x \in T : x <= k) => \E m \in T : m <= k /\ \A y \in T : y <= k => y <= m}
<1>1. 0 \in S
    OBVIOUS
<1>2. ASSUME NEW i \in 1..N, i - 1 \in S PROVE i \in S
    <2>1. CASE i \in T
        BY <2>1
    <2>2. CASE i \notin T
        <3>1. \A x \in T : x <= i <=> x <= i - 1
            BY <2>2
        <3>2. (\E x \in T : x <= i - 1) => \E m \in T : m <= i - 1 /\ \A y \in T : y <= i - 1 => y <= m
            BY <1>2
        <3>3. (\E x \in T : x <= i) => \E m \in T : m <= i /\ \A y \in T : y <= i => y <= m
            BY <3>1, <3>2
        <3>4. QED
            BY <3>3
    <2>3. QED
        BY <2>1, <2>2
<1>3. \A i \in 0..N : i \in S
  <2>. HIDE DEF S
  <2>. QED
    BY <1>1, <1>2, UpTo
<1>4. N \in S
    BY <1>3
<1>5. (\E x \in T : x <= N) => \E m \in T : m <= N /\ \A y \in T : y <= N => y <= m
    BY <1>4
<1>6. \E m \in T : \A y \in T : y <= m
    <2>1. \A y \in T : y <= N
        OBVIOUS
    <2>2. \E x \in T : x <= N
        BY <2>1
    <2>3. PICK m \in T : \A y \in T : y <= N => y <= m
        BY <1>5, <2>2
    <2>4. QED
        BY <2>1, <2>3
<1>7. \E m \in T : \A y \in T : m >= y
    BY <1>6
<1>8. Max(T) \in T /\ \A y \in T : Max(T) >= y
    BY <1>7 DEF Max
<1>9. QED
    BY <1>8

\* The position after the leaf p: the last step to the left is taken to the right.
LEMMA AfterLeaf ==
    ASSUME NEW L, NEW K, Proper(L, K), NEW p \in L, NEW k \in 1..Len(p), p[k] = 1,
           \A i \in k + 1..Len(p) : p[i] = 2,
           NEW n, n = Append(SubSeq(p, 1, k - 1), 2)
    PROVE  /\ n \in L \cup K
           /\ \A q \in L : Precedes(q, n) <=> q = p \/ Precedes(q, p)
<1>. DEFINE a == SubSeq(p, 1, k - 1)
<1>1. L \subseteq Path /\ p \in Path /\ Len(p) \in Nat /\ \A i \in 1..Len(p) : p[i] \in {1, 2}
    BY PathIs DEF Proper
<1>2. a \in Path /\ Len(a) = k - 1 /\ \A i \in 1..k - 1 : a[i] = p[i]
    <2>1. k - 1 \in 0..Len(p)
        BY <1>1
    <2>2. QED
        BY <1>1, <2>1, PartPath
<1>. HIDE DEF a
<1>3. n \in L \cup K
    <2>1. IsPrefix(a, p)
        BY <1>1, <1>2, PrefixIs
    <2>2. a # p
        BY <1>1, <1>2
    <2>3. a \in K
        BY <1>2, <2>1, <2>2, AboveIsSplit
    <2>4. n = Append(a, 2)
        BY DEF a
    <2>5. QED
        BY <2>3, <2>4 DEF Proper
<1>4. n \in Path /\ Len(n) = k /\ n[k] = 2 /\ \A i \in 1..k - 1 : n[i] = p[i]
    <2>1. n = Append(a, 2)
        BY DEF a
    <2>2. /\ n \in Path /\ Len(n) = Len(a) + 1 /\ n[Len(a) + 1] = 2
          /\ \A i \in 1..Len(a) : n[i] = a[i]
        BY <1>2, <2>1, ChildPath
    <2>3. QED
        BY <1>2, <2>2
<1>5. ASSUME NEW q \in L, Precedes(q, n) PROVE q = p \/ Precedes(q, p)
    <2>1. q \in Path /\ \A i \in 1..Len(q) : q[i] \in {1, 2}
        BY <1>1, PathIs
    <2>2. PICK i : PartsAt(q, n, i)
        BY <1>4, <1>5, <2>1, PrecedesIs
    <2>3. i \in 1..Len(q) /\ i \in 1..k /\ q[i] < n[i] /\ \A j \in 1..i - 1 : q[j] = n[j]
        BY <1>4, <2>2 DEF PartsAt
    <2>4. CASE i < k
        <3>1. n[i] = p[i] /\ \A j \in 1..i - 1 : q[j] = p[j]
            BY <1>4, <2>3, <2>4
        <3>2. PartsAt(q, p, i)
            BY <1>1, <2>3, <2>4, <3>1 DEF PartsAt
        <3>3. QED
            BY <1>1, <2>1, <3>2, PrecedesIs
    <2>5. CASE i = k
        <3>1. \A j \in 1..k : q[j] = p[j]
            <4>1. q[k] = 1
                BY <1>4, <2>1, <2>3, <2>5
            <4>2. \A j \in 1..k - 1 : q[j] = p[j]
                BY <1>4, <2>3, <2>5
            <4>3. QED
                BY <4>1, <4>2
        <3>2. ASSUME Precedes(p, q) PROVE FALSE
            <4>1. PICK j : PartsAt(p, q, j)
                BY <1>1, <2>1, <3>2, PrecedesIs
            <4>2. j \in 1..Len(p) /\ j \in 1..Len(q) /\ p[j] < q[j]
                BY <4>1 DEF PartsAt
            <4>3. p[j] = 1 /\ q[j] = 2
                BY <1>1, <2>1, <4>2
            <4>4. j \notin 1..k
                BY <3>1, <4>3
            <4>5. j \in k + 1..Len(p)
                BY <4>2, <4>4
            <4>6. QED
                BY <4>3, <4>5
        <3>3. QED
            BY <3>2, LeavesInOrder
    <2>6. QED
        BY <2>3, <2>4, <2>5
<1>6. Precedes(p, n)
    <2>1. PartsAt(p, n, k)
        BY <1>1, <1>4 DEF PartsAt
    <2>2. QED
        BY <1>1, <1>4, <2>1, PrecedesIs
<1>7. ASSUME NEW q \in L, Precedes(q, p) PROVE Precedes(q, n)
    <2>1. q \in Path /\ \A i \in 1..Len(q) : q[i] \in {1, 2}
        BY <1>1, PathIs
    <2>2. Precedes(q, p) /\ Precedes(p, n)
        BY <1>6, <1>7
    <2>3. QED
        BY <1>1, <1>4, <2>1, <2>2, PrecedesTransitive
<1>8. QED
    BY <1>3, <1>5, <1>6, <1>7

LEMMA PreorderNextIs ==
    ASSUME NEW t, ProperTree(t), NEW p \in DOMAIN t.leaf \cup DOMAIN t.split,
           NEW n, n = PreorderNext(t, p)
    PROVE  /\ n # Done => n \in DOMAIN t.leaf \cup DOMAIN t.split
           /\ n # Done /\ p \in DOMAIN t.split => LeafIndex(t, n) = LeafIndex(t, p)
           /\ n # Done /\ p \in DOMAIN t.leaf => LeafIndex(t, n) = LeafIndex(t, p) + 1
<1>. DEFINE L == DOMAIN t.leaf
            K == DOMAIN t.split
<1>1. Proper(L, K) /\ L \subseteq Path /\ p \in Path /\ IsFiniteSet(L) /\ L \cap K = {}
    BY DEF ProperTree, Proper
<1>2. Len(p) \in Nat /\ DOMAIN p = 1..Len(p) /\ \A i \in 1..Len(p) : p[i] \in {1, 2}
    BY <1>1, PathIs
<1>3. CASE p \in K
    <2>1. n = Append(p, 1)
        BY <1>3 DEF PreorderNext
    <2>2. n \in L \cup K
        BY <1>1, <1>3, <2>1 DEF Proper
    <2>3. /\ n \in Path /\ Len(n) = Len(p) + 1 /\ n[Len(p) + 1] = 1
          /\ \A i \in 1..Len(p) : n[i] = p[i]
        BY <1>1, <2>1, ChildPath
    <2>4. ASSUME NEW q \in L PROVE Precedes(q, n) <=> Precedes(q, p)
        <3>1. q \in Path /\ \A i \in 1..Len(q) : q[i] \in {1, 2}
            BY <1>1, PathIs
        <3>2. ASSUME NEW i, PartsAt(q, n, i) PROVE PartsAt(q, p, i)
            <4>1. i \in 1..Len(q) /\ i \in 1..Len(p) + 1 /\ q[i] < n[i] /\ \A j \in 1..i - 1 : q[j] = n[j]
                BY <2>3, <3>2 DEF PartsAt
            <4>2. i # Len(p) + 1
                BY <2>3, <3>1, <4>1
            <4>3. i \in 1..Len(p) /\ n[i] = p[i] /\ \A j \in 1..i - 1 : n[j] = p[j]
                BY <1>2, <2>3, <4>1, <4>2
            <4>4. QED
                BY <4>1, <4>3 DEF PartsAt
        <3>3. ASSUME NEW i, PartsAt(q, p, i) PROVE PartsAt(q, n, i)
            BY <3>3, <1>2, <2>3 DEF PartsAt
        <3>4. QED
            BY <1>1, <2>3, <3>1, <3>2, <3>3, PrecedesIs
    <2>5. {q \in L : Precedes(q, n)} = {q \in L : Precedes(q, p)}
        BY <2>4
    <2>6. LeafIndex(t, n) = LeafIndex(t, p)
        BY <2>5 DEF LeafIndex
    <2>7. QED
        BY <1>1, <1>3, <2>2, <2>6
<1>4. CASE p \in L
    <2>. DEFINE lefts == {i \in DOMAIN p : p[i] = 1}
                k == Max(lefts)
    <2>1. p \notin K
        BY <1>1, <1>4
    <2>2. n = IF lefts = {} THEN Done ELSE Append(SubSeq(p, 1, k - 1), 2)
        BY <2>1 DEF PreorderNext
    <2>3. CASE lefts = {}
        BY <2>2, <2>3, <2>1
    <2>4. CASE lefts # {}
        <3>1. lefts \subseteq 1..Len(p)
            BY <1>2
        <3>2. k \in lefts /\ \A y \in lefts : y <= k
          <4>. HIDE DEF lefts
          <4>. QED
            BY <1>2, <2>4, <3>1, MaxIs
        <3>3. k \in 1..Len(p) /\ p[k] = 1
            BY <3>1, <3>2
        <3>4. \A i \in k + 1..Len(p) : p[i] = 2
            <4>1. ASSUME NEW i \in k + 1..Len(p), p[i] # 2 PROVE FALSE
                <5>1. i \in 1..Len(p) /\ ~(i <= k)
                    BY <1>2, <3>3
                <5>2. p[i] = 1
                    BY <1>2, <4>1, <5>1
                <5>3. i \in lefts
                    BY <1>2, <5>1, <5>2
                <5>4. QED
                    BY <3>2, <5>1, <5>3
            <4>2. QED
                BY <4>1
        <3>5. n = Append(SubSeq(p, 1, k - 1), 2)
            BY <2>2, <2>4
        <3>. HIDE DEF k, lefts
        <3>6. /\ n \in L \cup K
              /\ \A q \in L : Precedes(q, n) <=> q = p \/ Precedes(q, p)
            BY <1>1, <1>4, <3>3, <3>4, <3>5, AfterLeaf
        <3>. DEFINE below == {q \in L : Precedes(q, p)}
        <3>7. {q \in L : Precedes(q, n)} = below \cup {p}
            BY <1>4, <3>6
        <3>8. p \notin below /\ below \in SUBSET L
            BY <1>1, PrecedesIrreflexive
        <3>9. LeafIndex(t, p) = Cardinality(below) /\ LeafIndex(t, n) = Cardinality(below \cup {p})
            BY <3>7 DEF LeafIndex
        <3>. HIDE DEF below
        <3>10. IsFiniteSet(below)
            BY <1>1, <3>8, FS_Subset
        <3>11. Cardinality(below \cup {p}) = Cardinality(below) + 1
            BY <3>8, <3>10, FS_AddElement
        <3>12. QED
            BY <2>1, <3>6, <3>9, <3>11
    <2>5. QED
        BY <2>3, <2>4
<1>5. QED
    BY <1>3, <1>4

LEMMA IndexNat ==
    ASSUME NEW t, ProperTree(t), NEW p
    PROVE  LeafIndex(t, p) \in Nat
<1>. DEFINE below == {q \in DOMAIN t.leaf : Precedes(q, p)}
<1>1. below \in SUBSET DOMAIN t.leaf /\ IsFiniteSet(DOMAIN t.leaf)
    BY DEF ProperTree, Proper
<1>2. LeafIndex(t, p) = Cardinality(below)
    BY DEF LeafIndex
<1>. HIDE DEF below
<1>3. IsFiniteSet(below)
    BY <1>1, FS_Subset
<1>4. QED
    BY <1>2, <1>3, FS_CardinalityType

-------------------------------------------------------------------------------
\* The walk of remove_pane_if.

AtMostOne(t, doomed) == \A x, y \in PanesOf(t) \cap doomed : x = y

\* Until the walk meets a doomed pane it changes nothing and counts the leaves;
\* when only one is doomed, it then has removed that leaf and its index.
Unmet(t, w) == w.tree = t /\ w.removed = {} /\ (w.at # Done => w.index = LeafIndex(t, w.at))
MetAt(t, doomed, w, p) ==
    /\ t.leaf[p] \in doomed
    /\ w.removed = {LeafIndex(t, p)}
    /\ IF p = <<>> THEN Gone(w.tree) ELSE Good(w.tree) /\ w.tree.leaf = Lifted(t, p).leaf
Met(t, doomed, w) == \E p \in DOMAIN t.leaf : MetAt(t, doomed, w, p)

Position(t, p) == p = Done \/ p \in DOMAIN t.leaf \cup DOMAIN t.split

WalkRecords == [tree : Tab, at : Path \cup {Done}, index : Nat, removed : SUBSET Nat]
Walks(t, doomed) ==
    {w \in WalkRecords :
        /\ Good(w.tree) \/ Gone(w.tree)
        /\ Position(w.tree, w.at)
        /\ IsFiniteSet(w.removed)
        /\ w.tree.active = t.active /\ w.tree.dead = t.dead
        /\ AtMostOne(t, doomed) => Unmet(t, w) \/ Met(t, doomed, w)}

\* A walk record with other parts.
LEMMA RecordIs ==
    ASSUME NEW w \in WalkRecords
    PROVE  /\ w.tree \in Tab /\ w.index \in Nat /\ w.removed \in SUBSET Nat
           /\ w = [tree |-> w.tree, at |-> w.at, index |-> w.index, removed |-> w.removed]
    BY DEF WalkRecords

LEMMA RecordWith ==
    ASSUME NEW w \in WalkRecords, NEW u, NEW at, NEW v, v = [w EXCEPT !.tree = u, !.at = at]
    PROVE  v = [tree |-> u, at |-> at, index |-> w.index, removed |-> w.removed]
    BY DEF WalkRecords

LEMMA RecordOf ==
    ASSUME NEW u \in Tab, NEW at \in Path \cup {Done}, NEW i \in Nat, NEW r \in SUBSET Nat,
           NEW v, v = [tree |-> u, at |-> at, index |-> i, removed |-> r]
    PROVE  v \in WalkRecords /\ v.tree = u /\ v.at = at /\ v.index = i /\ v.removed = r
    BY DEF WalkRecords

LEMMA PathOrDone ==
    ASSUME NEW t \in Tab, NEW p, Position(t, p)
    PROVE  p \in Path \cup {Done}
    BY TabFields DEF Position

LEMMA NextPosition ==
    ASSUME NEW t, Good(t), NEW p \in DOMAIN t.leaf \cup DOMAIN t.split, NEW n, n = PreorderNext(t, p)
    PROVE  Position(t, n)
    BY PreorderNextIs DEF Position, Good

\* The positions of a tree whose sizes change.
LEMMA AlikePosition ==
    ASSUME NEW t, NEW u, Alike(t, u), NEW p, Position(t, p)
    PROVE  Position(u, p)
    BY DEF Position, Alike

LEMMA AlikeNext ==
    ASSUME NEW t, NEW u, Alike(t, u), NEW p
    PROVE  PreorderNext(u, p) = PreorderNext(t, p)
    BY DEF PreorderNext, Alike

\* Nothing doomed is left once the one doomed pane is gone.
LEMMA NoneLeft ==
    ASSUME NEW t, Good(t), NEW doomed, AtMostOne(t, doomed), NEW w, NEW p \in DOMAIN t.leaf,
           MetAt(t, doomed, w, p)
    PROVE  PanesOf(w.tree) \cap doomed = {}
<1>1. CASE p = <<>>
    BY <1>1 DEF MetAt, Gone, PanesOf
<1>2. CASE p # <<>>
    <2>1. PanesOf(w.tree) = PanesOf(Lifted(t, p))
        BY <1>2 DEF MetAt, PanesOf
    <2>2. PanesOf(Lifted(t, p)) = PanesOf(t) \ {t.leaf[p]}
        BY <1>2, LiftedIs
    <2>3. t.leaf[p] \in doomed \cap PanesOf(t)
        BY DEF MetAt, PanesOf
    <2>4. QED
        BY <2>1, <2>2, <2>3 DEF AtMostOne
<1>3. QED
    BY <1>1, <1>2

\* A step that changes sizes only.
LEMMA SizesWalked ==
    ASSUME NEW t, Good(t), NEW doomed, NEW w \in Walks(t, doomed), w.at # Done, Good(w.tree),
           NEW u, Alike(w.tree, u), w.removed = {} => u = w.tree,
           NEW n \in {0, 1}, n = 0 <=> w.at \in DOMAIN w.tree.split,
           NEW v, v = [w EXCEPT !.tree = u, !.at = PreorderNext(w.tree, w.at), !.index = @ + n]
    PROVE  v \in Walks(t, doomed)
<1>. DEFINE next == PreorderNext(w.tree, w.at)
<1>1. /\ w \in WalkRecords
      /\ Position(w.tree, w.at)
      /\ IsFiniteSet(w.removed)
      /\ w.tree.active = t.active /\ w.tree.dead = t.dead
      /\ AtMostOne(t, doomed) => Unmet(t, w) \/ Met(t, doomed, w)
    BY DEF Walks
<1>2. w.at \in DOMAIN w.tree.leaf \cup DOMAIN w.tree.split /\ ProperTree(w.tree)
    BY <1>1 DEF Position, Good
<1>3. Position(w.tree, next)
    BY <1>2, NextPosition
<1>4. Good(u) /\ u \in Tab /\ u.leaf = w.tree.leaf /\ u.active = t.active /\ u.dead = t.dead
    BY <1>1, AlikeGood DEF Alike
<1>5. Position(u, next) /\ next \in Path \cup {Done}
    BY <1>3, <1>4, AlikePosition, PathOrDone
<1>6. next # Done => LeafIndex(w.tree, next) = LeafIndex(w.tree, w.at) + n
    <2>1. CASE w.at \in DOMAIN w.tree.split
        <3>1. n = 0
            BY <2>1
        <3>2. next # Done => LeafIndex(w.tree, next) = LeafIndex(w.tree, w.at)
            BY <1>2, <2>1, PreorderNextIs
        <3>3. LeafIndex(w.tree, w.at) \in Nat
            BY <1>2, IndexNat
        <3>4. QED
            BY <3>1, <3>2, <3>3
    <2>2. CASE w.at \notin DOMAIN w.tree.split
        <3>1. n = 1 /\ w.at \in DOMAIN w.tree.leaf
            BY <1>2, <2>2
        <3>2. QED
            BY <1>2, <3>1, PreorderNextIs
    <2>3. QED
        BY <2>1, <2>2
<1>. HIDE DEF next
<1>7. /\ v \in WalkRecords
      /\ v.tree = u /\ v.at = next /\ v.index = w.index + n /\ v.removed = w.removed
    <2>1. /\ w.tree \in Tab /\ w.at \in Path \cup {Done} /\ w.index \in Nat /\ w.removed \in SUBSET Nat
          /\ w = [tree |-> w.tree, at |-> w.at, index |-> w.index, removed |-> w.removed]
        BY <1>1 DEF WalkRecords
    <2>2. w.index + n \in Nat
        BY <2>1
    <2>. DEFINE x == [tree |-> u, at |-> next, index |-> w.index + n, removed |-> w.removed]
    <2>3. v = x
        BY <2>1 DEF next
    <2>4. x.tree = u /\ x.at = next /\ x.index = w.index + n /\ x.removed = w.removed
        OBVIOUS
    <2>5. x \in WalkRecords
        <3>. DEFINE i == w.index + n
        <3>1. x = [tree |-> u, at |-> next, index |-> i, removed |-> w.removed] /\ i \in Nat
            BY <2>2
        <3>. HIDE DEF i
        <3>2. [tree |-> u, at |-> next, index |-> i, removed |-> w.removed] \in WalkRecords
            BY <1>4, <1>5, <2>1, <3>1, RecordOf
        <3>3. QED
            BY <3>1, <3>2
    <2>. HIDE DEF x
    <2>6. QED
        BY <2>3, <2>4, <2>5, Zenon
<1>8. ASSUME Unmet(t, w) PROVE Unmet(t, v)
    BY <1>6, <1>7, <1>8 DEF Unmet
<1>9. ASSUME NEW p \in DOMAIN t.leaf, MetAt(t, doomed, w, p) PROVE MetAt(t, doomed, v, p)
    <2>1. ~Gone(w.tree)
        BY <1>2 DEF Gone
    <2>2. QED
        BY <1>4, <1>7, <1>9, <2>1 DEF MetAt
<1>10. AtMostOne(t, doomed) => Unmet(t, v) \/ Met(t, doomed, v)
    BY <1>1, <1>8, <1>9 DEF Met
<1>11. QED
    BY <1>1, <1>4, <1>5, <1>7, <1>10 DEF Walks

LEMMA AlikeSelf ==
    ASSUME NEW t \in Tab
    PROVE  Alike(t, t)
    BY DEF Alike

\* The step that removes a leaf.
LEMMA LeafWalked ==
    ASSUME NEW t, Good(t), NEW doomed, NEW w \in Walks(t, doomed), Good(w.tree),
           NEW p \in DOMAIN w.tree.leaf, p = w.at, w.tree.leaf[p] \in doomed,
           NEW v \in WalkRecords, v.removed = w.removed \cup {w.index},
           v.tree.active = w.tree.active, v.tree.dead = w.tree.dead, Position(v.tree, v.at),
           IF p = <<>> THEN Gone(v.tree) ELSE Good(v.tree) /\ v.tree.leaf = Lifted(w.tree, p).leaf
    PROVE  v \in Walks(t, doomed)
<1>1. /\ w \in WalkRecords
      /\ IsFiniteSet(w.removed)
      /\ w.tree.active = t.active /\ w.tree.dead = t.dead
      /\ AtMostOne(t, doomed) => Unmet(t, w) \/ Met(t, doomed, w)
    BY DEF Walks
<1>2. IsFiniteSet(v.removed)
    BY <1>1, FS_AddElement
<1>3. w.at # Done
    BY DonePath DEF Good, ProperTree, Proper
<1>4. ASSUME AtMostOne(t, doomed) PROVE Met(t, doomed, v)
    <2>1. ~Met(t, doomed, w)
        <3>1. SUFFICES ASSUME NEW q \in DOMAIN t.leaf, MetAt(t, doomed, w, q) PROVE FALSE
            BY DEF Met
        <3>2. PanesOf(w.tree) \cap doomed = {}
            BY <1>4, <3>1, NoneLeft
        <3>3. w.tree.leaf[p] \in PanesOf(w.tree)
            BY DEF PanesOf
        <3>4. QED
            BY <3>2, <3>3
    <2>2. w.tree = t /\ w.removed = {} /\ w.index = LeafIndex(t, p)
        BY <1>1, <1>3, <1>4, <2>1 DEF Unmet
    <2>3. MetAt(t, doomed, v, p)
        BY <2>2 DEF MetAt
    <2>4. QED
        BY <2>2, <2>3 DEF Met
<1>5. QED
    BY <1>1, <1>2, <1>4 DEF Walks

LEMMA WalkStepIs ==
    ASSUME NEW t, Good(t), NEW doomed, NEW w \in Walks(t, doomed)
    PROVE  WalkStep(w, doomed) \in Walks(t, doomed)
<1>. DEFINE s == w.tree
            p == w.at
            v == WalkStep(w, doomed)
<1>1. /\ w \in WalkRecords
      /\ Good(s) \/ Gone(s)
      /\ Position(s, p)
    BY DEF Walks
<1>2. CASE p = Done
    BY <1>2 DEF WalkStep
<1>3. CASE p # Done
    <2>1. p \in DOMAIN s.leaf \cup DOMAIN s.split
        BY <1>1, <1>3 DEF Position
    <2>2. Good(s) /\ s \in Tab /\ ProperTree(s)
        BY <1>1, <2>1 DEF Gone, Good
    <2>3. Room(s, p) \in Size
        BY <2>1, <2>2, RoomIs
    <2>4. CASE p \in DOMAIN s.split
        <3>. DEFINE u == IF w.removed = {} THEN s ELSE Fit(s, p, Room(s, p))
        <3>1. Alike(s, u) /\ (w.removed = {} => u = s)
            BY <2>2, <2>3, <2>4, FitIs, AlikeSelf
        <3>2. v = [w EXCEPT !.tree = u, !.at = PreorderNext(u, p)]
            BY <1>3, <2>4 DEF WalkStep
        <3>. HIDE DEF u
        <3>3. PreorderNext(u, p) = PreorderNext(s, p)
            BY <3>1, AlikeNext
        <3>4. v = [w EXCEPT !.tree = u, !.at = PreorderNext(s, p), !.index = @ + 0]
            <4>1. w.index + 0 = w.index
                BY <1>1, RecordIs
            <4>2. QED
                BY <1>1, <3>2, <3>3, <4>1, RecordIs
        <3>. HIDE DEF v
        <3>5. v \in Walks(t, doomed)
            BY <1>3, <2>2, <2>4, <3>1, <3>4, SizesWalked
        <3>6. QED
            BY <3>5 DEF v
    <2>5. CASE p \notin DOMAIN s.split /\ s.leaf[p] \notin doomed
        <3>. DEFINE u == IF w.removed = {} THEN s ELSE [s EXCEPT !.pty[s.leaf[p]] = Room(s, p)]
        <3>0. p \in DOMAIN s.leaf /\ s.leaf[p] \in DOMAIN s.pty
            BY <2>1, <2>2, <2>5 DEF Good, PanesOf
        <3>1. Alike(s, u) /\ (w.removed = {} => u = s)
            BY <2>2, <2>3, <3>0, PtySet, AlikeSelf
        <3>2. v = [[w EXCEPT !.tree = u, !.at = PreorderNext(u, p)] EXCEPT !.index = @ + 1]
            BY <1>3, <2>5 DEF WalkStep
        <3>. HIDE DEF u
        <3>3. PreorderNext(u, p) = PreorderNext(s, p)
            BY <3>1, AlikeNext
        <3>4. v = [w EXCEPT !.tree = u, !.at = PreorderNext(s, p), !.index = @ + 1]
            BY <1>1, <3>2, <3>3, RecordIs
        <3>. HIDE DEF v
        <3>5. v \in Walks(t, doomed)
            <4>1. 1 \in {0, 1} /\ (1 = 0 <=> p \in DOMAIN s.split)
                BY <2>5
            <4>2. QED
                BY <1>3, <2>2, <3>1, <3>4, <4>1, SizesWalked
        <3>6. QED
            BY <3>5 DEF v
    <2>6. CASE p \notin DOMAIN s.split /\ s.leaf[p] \in doomed /\ p = <<>>
        <3>1. v = [[w EXCEPT !.tree = Emptied(s), !.at = Done] EXCEPT !.removed = @ \cup {w.index}]
            BY <1>3, <2>6 DEF WalkStep
        <3>2. /\ v.tree = Emptied(s) /\ v.at = Done /\ v.index = w.index
              /\ v.removed = w.removed \cup {w.index}
              /\ v = [tree |-> v.tree, at |-> v.at, index |-> v.index, removed |-> v.removed]
            <4>. DEFINE a == [w EXCEPT !.tree = Emptied(s), !.at = Done]
            <4>1. a = [tree |-> Emptied(s), at |-> Done, index |-> w.index, removed |-> w.removed]
                BY <1>1, RecordWith
            <4>2. v = [a EXCEPT !.removed = @ \cup {w.index}]
                BY <3>1
            <4>. HIDE DEF a, v
            <4>3. QED
                BY <4>1, <4>2
        <3>3. Gone(v.tree) /\ v.tree.active = s.active /\ v.tree.dead = s.dead
            BY <2>1, <2>2, <2>6, <3>2, EmptiedIs
        <3>4. v \in WalkRecords
            BY <1>1, <3>2, <3>3, RecordIs DEF WalkRecords, Gone
        <3>5. Position(v.tree, v.at)
            BY <3>2 DEF Position
        <3>6. QED
            BY <2>1, <2>2, <2>6, <3>2, <3>3, <3>4, <3>5, LeafWalked
    <2>7. CASE p \notin DOMAIN s.split /\ s.leaf[p] \in doomed /\ p # <<>>
        <3>. DEFINE u == Unsplit(s, p)
        <3>1. v = [[[w EXCEPT !.tree = u, !.at = PreorderNext(u, Front(p))]
                     EXCEPT !.removed = @ \cup {w.index}] EXCEPT !.index = @ + 1]
            BY <1>3, <2>7 DEF WalkStep
        <3>2. /\ Good(u)
              /\ u.leaf = Lifted(s, p).leaf
              /\ u.active = s.active /\ u.dead = s.dead
              /\ Front(p) \in DOMAIN u.leaf \cup DOMAIN u.split
            BY <2>1, <2>2, <2>7, UnsplitIs
        <3>. HIDE DEF u
        <3>3. /\ v.tree = u /\ v.at = PreorderNext(u, Front(p)) /\ v.index = w.index + 1
              /\ v.removed = w.removed \cup {w.index}
              /\ v = [tree |-> v.tree, at |-> v.at, index |-> v.index, removed |-> v.removed]
            <4>. DEFINE a == [w EXCEPT !.tree = u, !.at = PreorderNext(u, Front(p))]
                        b == [a EXCEPT !.removed = @ \cup {w.index}]
            <4>1. a = [tree |-> u, at |-> PreorderNext(u, Front(p)), index |-> w.index, removed |-> w.removed]
                BY <1>1, RecordWith
            <4>2. v = [b EXCEPT !.index = @ + 1]
                BY <3>1
            <4>. HIDE DEF a, v
            <4>3. b = [tree |-> u, at |-> PreorderNext(u, Front(p)), index |-> w.index,
                       removed |-> w.removed \cup {w.index}]
                BY <4>1
            <4>. HIDE DEF b
            <4>4. QED
                BY <4>2, <4>3
        <3>4. Position(v.tree, v.at)
            BY <3>2, <3>3, NextPosition
        <3>5. v.tree \in Tab /\ v.at \in Path \cup {Done}
            BY <3>2, <3>3, <3>4, PathOrDone DEF Good
        <3>6. v \in WalkRecords
            <4>1. w.index + 1 \in Nat /\ w.removed \cup {w.index} \in SUBSET Nat
                BY <1>1, RecordIs
            <4>2. QED
                BY <3>3, <3>5, <4>1 DEF WalkRecords
        <3>. HIDE DEF v
        <3>7. v \in Walks(t, doomed)
            BY <2>1, <2>2, <2>7, <3>2, <3>3, <3>4, <3>6, LeafWalked
        <3>8. QED
            BY <3>7 DEF v
    <2>8. QED
        BY <2>4, <2>5, <2>6, <2>7
<1>4. QED
    BY <1>2, <1>3

LEMMA FirstIndex ==
    ASSUME NEW t, ProperTree(t)
    PROVE  LeafIndex(t, <<>>) = 0
<1>1. DOMAIN t.leaf \subseteq Path
    BY DEF ProperTree, Proper
<1>2. {q \in DOMAIN t.leaf : Precedes(q, <<>>)} = {}
    BY <1>1, RootPath, PrecedesIs DEF PartsAt
<1>3. QED
    BY <1>2, FS_EmptySet DEF LeafIndex

LEMMA WalkIs ==
    ASSUME NEW t, Good(t), NEW doomed
    PROVE  Walk(t, doomed) \in Walks(t, doomed)
<1>. DEFINE met == {p \in DOMAIN t.leaf : t.leaf[p] \in doomed}
            N == 2 * LeafCount(t) * (Cardinality(met) + 1)
            base == [tree |-> t, at |-> <<>>, index |-> 0, removed |-> {}]
            S == Walks(t, doomed)
            Eq(f) == f = [i \in 0..N |-> IF i = 0 THEN base ELSE WalkStep(f[i - 1], doomed)]
            step == [x \in (1..N) \X S |-> WalkStep(x[2], doomed)]
            walk == CHOOSE f : Eq(f)
<1>1. N \in Nat
    <2>1. LeafCount(t) \in Nat
        BY LeafCountIs DEF Good
    <2>2. Cardinality(met) \in Nat
        <3>1. IsFiniteSet(DOMAIN t.leaf) /\ met \subseteq DOMAIN t.leaf
            BY DEF Good, ProperTree, Proper
        <3>2. QED
            BY <3>1, FS_Subset, FS_CardinalityType
    <2>3. \A m, n \in Nat : 2 * m * (n + 1) \in Nat
        OBVIOUS
    <2>. HIDE DEF met
    <2>4. QED
        BY <2>1, <2>2, <2>3
<1>2. \A u \in S : WalkStep(u, doomed) \in S
    BY WalkStepIs
<1>3. step \in [(1..N) \X S -> S]
    BY <1>2
<1>4. base \in S
    <2>1. t \in Tab /\ <<>> \in Path \cup {Done} /\ 0 \in Nat /\ {} \in SUBSET Nat
        BY RootPath DEF Good
    <2>2. base \in WalkRecords
        BY <2>1 DEF WalkRecords
    <2>3. base.tree = t /\ base.at = <<>> /\ base.index = 0 /\ base.removed = {}
        OBVIOUS
    <2>. HIDE DEF base
    <2>4. Position(t, <<>>)
        BY DEF Good, ProperTree, Proper, Position
    <2>5. Unmet(t, base)
        BY <2>3, FirstIndex DEF Unmet, Good
    <2>6. IsFiniteSet(base.removed)
        BY <2>3, FS_EmptySet
    <2>7. QED
        BY <2>2, <2>3, <2>4, <2>5, <2>6 DEF Walks
<1>5. \A i \in 1..N, u \in S : step[<<i, u>>] = WalkStep(u, doomed)
    OBVIOUS
<1>6. Walk(t, doomed) = walk[N]
    BY DEF Walk
<1>. HIDE DEF S, step, base, N
<1>7. \E f : Eq(f)
    <2>1. PICK g : Runs(N, S, base, step, g)
        BY <1>1, <1>3, <1>4, Iterated
    <2>2. ASSUME NEW i \in 0..N
          PROVE g[i] = IF i = 0 THEN base ELSE WalkStep(g[i - 1], doomed)
        <3>1. CASE i = 0
            BY <3>1, <2>1 DEF Runs
        <3>2. CASE i # 0
            <4>1. i \in 1..N /\ i - 1 \in 0..N
                BY <3>2, <1>1
            <4>2. g[i - 1] \in S
                BY <4>1, <2>1 DEF Runs
            <4>3. QED
                BY <4>1, <4>2, <2>1, <1>5, <3>2 DEF Runs
        <3>3. QED
            BY <3>1, <3>2
    <2>3. g = [i \in 0..N |-> IF i = 0 THEN base ELSE WalkStep(g[i - 1], doomed)]
        BY <2>1, <2>2 DEF Runs
    <2>4. QED
        BY <2>3
<1>8. Eq(walk)
    BY <1>7
<1>. HIDE DEF walk
<1>9. walk[0] \in S
    BY <1>1, <1>4, <1>8
<1>10. ASSUME NEW i \in 1..N, walk[i - 1] \in S PROVE walk[i] \in S
    <2>1. walk[i] = WalkStep(walk[i - 1], doomed)
        BY <1>1, <1>8
    <2>2. QED
        BY <2>1, <1>2, <1>10
<1>11. \A i \in 0..N : walk[i] \in S
    BY <1>1, <1>9, <1>10, IteratedAll
<1>12. walk[N] \in S
    BY <1>1, <1>11
<1>13. QED
    BY <1>6, <1>12 DEF S

\* What a tab shows depends on its leaves and its active index alone.
LEMMA SameLeaves ==
    ASSUME NEW t, NEW u, u.leaf = t.leaf
    PROVE  /\ PanesOf(u) = PanesOf(t)
           /\ LeafCount(u) = LeafCount(t)
           /\ \A p : LeafIndex(u, p) = LeafIndex(t, p)
           /\ \A i : HasIndex(u, i) <=> HasIndex(t, i)
           /\ \A i : PaneAt(u, i) = PaneAt(t, i)
           /\ \A x : IndexOf(u, x) = IndexOf(t, x)
           /\ u.active = t.active => ActivePane(u) = ActivePane(t)
<1>1. PanesOf(u) = PanesOf(t) /\ LeafCount(u) = LeafCount(t)
    BY DEF PanesOf, LeafCount
<1>2. \A p : LeafIndex(u, p) = LeafIndex(t, p)
    BY DEF LeafIndex
<1>3. \A i : HasIndex(u, i) <=> HasIndex(t, i)
    BY <1>1 DEF HasIndex
<1>4. \A i : LeafAt(u, i) = LeafAt(t, i)
    BY <1>2 DEF LeafAt
<1>5. \A i : PaneAt(u, i) = PaneAt(t, i)
    BY <1>4 DEF PaneAt
<1>6. \A x : PathOf(u, x) = PathOf(t, x)
    BY DEF PathOf
<1>7. \A x : IndexOf(u, x) = IndexOf(t, x)
    BY <1>2, <1>6 DEF IndexOf
<1>8. u.active = t.active => ActivePane(u) = ActivePane(t)
    BY <1>3, <1>5 DEF ActivePane
<1>9. QED
    BY <1>1, <1>2, <1>3, <1>5, <1>7, <1>8

LEMMA SameTree ==
    ASSUME NEW t, NEW u \in Tab,
           u.leaf = t.leaf, u.split = t.split, u.pty = t.pty, u.zoomed = t.zoomed
    PROVE  /\ Good(t) => Good(u)
           /\ Gone(t) => Gone(u)
<1>1. PanesOf(u) = PanesOf(t)
    BY DEF PanesOf
<1>2. QED
    BY <1>1 DEF Good, ProperTree, Gone

\* The active pane of t is the one of u, unless u does not hold it.
Keeps(t, u) == ActivePane(t) \in PanesOf(u) => ActivePane(u) = ActivePane(t)

LEMMA GoneIs ==
    ASSUME NEW u, Gone(u)
    PROVE  PanesOf(u) = {} /\ InRange(u) /\ \A t : Keeps(t, u)
<1>1. PanesOf(u) = {}
    BY DEF Gone, PanesOf
<1>2. LeafCount(u) = 0
    BY FS_EmptySet DEF LeafCount, Gone
<1>3. QED
    BY <1>1, <1>2 DEF InRange, Keeps

\* The active index moves down when what went was at it or before it.
LEMMA ShiftedActive ==
    ASSUME NEW t, Good(t), NEW p \in DOMAIN t.leaf, p # <<>>,
           NEW u, Good(u), u.leaf = Lifted(t, p).leaf,
           u.active = IF LeafIndex(t, p) <= t.active THEN Monus(t.active, 1) ELSE t.active
    PROVE  (InRange(t) => InRange(u)) /\ Keeps(t, u)
<1>. DEFINE m == LeafIndex(t, p)
            v == Lifted(t, p)
            n == LeafCount(t)
<1>1. ProperTree(t) /\ t \in Tab /\ t.active \in Nat /\ ProperTree(u)
    BY TabFields DEF Good
<1>2. n \in Nat /\ m \in 0..n - 1
    BY <1>1, LeafIndexIs, LeafCountIs
<1>3. LeafCount(u) = n - 1 /\ PanesOf(u) = PanesOf(t) \ {t.leaf[p]}
    <2>1. LeafCount(v) = n - 1 /\ PanesOf(v) = PanesOf(t) \ {t.leaf[p]}
        BY LiftedIs
    <2>2. LeafCount(u) = LeafCount(v) /\ PanesOf(u) = PanesOf(v)
        BY DEF LeafCount, PanesOf
    <2>3. QED
        BY <2>1, <2>2
<1>4. Monus(t.active, 1) = IF t.active > 0 THEN t.active - 1 ELSE 0
    BY <1>1 DEF Monus, AtLeast
<1>. HIDE DEF m, n
<1>5. u.active = IF m <= t.active THEN IF t.active > 0 THEN t.active - 1 ELSE 0 ELSE t.active
    BY <1>4 DEF m
<1>6. InRange(t) => InRange(u)
    BY <1>1, <1>2, <1>3, <1>5 DEF InRange, n
<1>7. ASSUME ActivePane(t) \in PanesOf(u) PROVE ActivePane(u) = ActivePane(t)
    <2>. DEFINE r == LeafAt(t, t.active)
    <2>1. ActivePane(t) \in PanesOf(t) /\ ActivePane(t) # t.leaf[p]
        BY <1>3, <1>7
    <2>2. PanesOf(t) \subseteq Panes
        BY <1>1, TabFields DEF Good
    <2>3. HasIndex(t, t.active) /\ ActivePane(t) = t.leaf[r]
        BY <2>1, <2>2, SplitTreeAssumption DEF ActivePane, PaneAt
    <2>4. r \in DOMAIN t.leaf /\ LeafIndex(t, r) = t.active /\ r # p
        BY <1>1, <2>1, <2>3, LeafAtIs DEF HasIndex
    <2>. HIDE DEF r
    <2>5. PICK q \in DOMAIN v.leaf :
             /\ v.leaf[q] = t.leaf[r]
             /\ LeafIndex(v, q) = LeafIndex(t, r) - (IF Precedes(p, r) THEN 1 ELSE 0)
        BY <2>4, LiftedIndex
    <2>6. LeafIndex(u, q) = LeafIndex(v, q) /\ q \in DOMAIN u.leaf /\ u.leaf[q] = t.leaf[r]
        BY <2>5 DEF LeafIndex
    <2>7. (Precedes(p, r) <=> m < t.active) /\ m # t.active
        BY <1>1, <2>4, LeafIndexOrders DEF m
    <2>8. LeafIndex(u, q) = t.active - (IF Precedes(p, r) THEN 1 ELSE 0)
        BY <2>4, <2>5, <2>6
    <2>9. LeafIndex(u, q) = u.active
        <3>1. CASE Precedes(p, r)
            BY <3>1, <1>1, <1>2, <1>5, <2>7, <2>8
        <3>2. CASE ~Precedes(p, r)
            BY <3>2, <1>1, <1>2, <1>5, <2>7, <2>8
        <3>3. QED
            BY <3>1, <3>2
    <2>10. LeafAt(u, u.active) = q /\ HasIndex(u, u.active)
        BY <1>1, <2>6, <2>9, LeafAtIndex, LeafIndexIs DEF HasIndex
    <2>11. QED
        BY <2>3, <2>6, <2>10 DEF ActivePane, PaneAt
<1>8. QED
    BY <1>6, <1>7 DEF Keeps

LEMMA WithoutIs ==
    ASSUME NEW t, Good(t), NEW doomed, NEW u, u = Without(t, doomed)
    PROVE  /\ Good(u) \/ Gone(u)
           /\ u.dead \subseteq t.dead
           /\ AtMostOne(t, doomed) =>
                /\ InRange(t) => InRange(u)
                /\ Keeps(t, u)
                /\ Good(u) => PanesOf(t) \ doomed \subseteq PanesOf(u)
<1>. DEFINE Fine == /\ InRange(t) => InRange(u)
                    /\ Keeps(t, u)
                    /\ Good(u) => PanesOf(t) \ doomed \subseteq PanesOf(u)
<1>. DEFINE w == Walk(t, doomed)
            s == w.tree
            before == {i \in w.removed : i <= t.active}
            n == Monus(s.active, Cardinality(before))
            dead == s.dead \cap PanesOf(s)
<1>1. /\ w \in WalkRecords
      /\ Good(s) \/ Gone(s)
      /\ IsFiniteSet(w.removed)
      /\ s.active = t.active /\ s.dead = t.dead
      /\ AtMostOne(t, doomed) => Unmet(t, w) \/ Met(t, doomed, w)
    BY WalkIs DEF Walks
<1>2. t.active \in Nat /\ t.dead \subseteq Panes
    BY TabFields DEF Good
<1>3. u = [s EXCEPT !.active = n, !.dead = dead]
    BY DEF Without
<1>4. Cardinality(before) \in Nat
    <2>1. before \in SUBSET w.removed
        OBVIOUS
    <2>. HIDE DEF before
    <2>2. IsFiniteSet(before)
        BY <1>1, <2>1, FS_Subset
    <2>3. QED
        BY <2>2, FS_CardinalityType
<1>5. n \in Nat
    <2>1. s.active \in Int /\ Cardinality(before) \in Int
        BY <1>1, <1>2, <1>4
    <2>. HIDE DEF before, s
    <2>2. QED
        BY <2>1, Numbers
<1>6. dead \subseteq Panes /\ dead \subseteq t.dead
    BY <1>1, <1>2
<1>. HIDE DEF w, n, dead, before
<1>7. /\ Good(s) => Good(u)
      /\ Gone(s) => Gone(u)
      /\ u.leaf = s.leaf /\ u.active = n /\ u.dead = dead
  <2>. HIDE DEF s
  <2>1. Good(s) \/ Gone(s)
    BY <1>1
  <2>2. QED
    <3>1. s \in Tab /\ dead \subseteq Panes
        BY <1>6, <2>1 DEF Good, Gone
    <3>2. /\ u \in Tab
          /\ u.leaf = s.leaf /\ u.split = s.split /\ u.pty = s.pty /\ u.zoomed = s.zoomed
          /\ u.active = n /\ u.dead = dead
        BY <1>3, <1>5, <3>1 DEF Tab
    <3>3. QED
        BY <2>1, <3>2, SameTree
<1>8. ASSUME Unmet(t, w) PROVE Fine
    <2>1. s = t /\ before = {}
        BY <1>8 DEF Unmet, before
    <2>2. n = t.active
        <3>1. Cardinality(before) = 0
            BY <2>1, FS_EmptySet
        <3>2. QED
            BY <1>2, <2>1, <3>1 DEF n, Monus, AtLeast
    <2>3. u.leaf = t.leaf /\ u.active = t.active
        BY <1>7, <2>1, <2>2
    <2>. HIDE DEF s
    <2>4. LeafCount(u) = LeafCount(t) /\ ActivePane(u) = ActivePane(t) /\ PanesOf(u) = PanesOf(t)
        BY <2>3, SameLeaves
    <2>5. QED
        BY <2>3, <2>4 DEF InRange, Keeps
<1>9. ASSUME NEW p \in DOMAIN t.leaf, MetAt(t, doomed, w, p)
      PROVE  Fine
    <2>1. CASE p = <<>>
        <3>1. Gone(u)
            BY <2>1, <1>7, <1>9 DEF MetAt
        <3>2. ~Good(u)
            BY <3>1 DEF Gone, Good, ProperTree, Proper
        <3>3. QED
            BY <3>1, <3>2, GoneIs
    <2>2. CASE p # <<>>
        <3>1. /\ w.removed = {LeafIndex(t, p)} /\ Good(u)
              /\ u.leaf = Lifted(t, p).leaf
            BY <2>2, <1>7, <1>9 DEF MetAt
        <3>2. u.active = IF LeafIndex(t, p) <= t.active THEN Monus(t.active, 1) ELSE t.active
            <4>1. CASE LeafIndex(t, p) <= t.active
                <5>1. before = {LeafIndex(t, p)}
                    BY <3>1, <4>1 DEF before
                <5>2. Cardinality(before) = 1
                    BY <5>1, FS_Singleton
                <5>3. QED
                    BY <1>1, <1>7, <4>1, <5>2 DEF n
            <4>2. CASE ~(LeafIndex(t, p) <= t.active)
                <5>1. before = {}
                    BY <3>1, <4>2 DEF before
                <5>2. Cardinality(before) = 0
                    BY <5>1, FS_EmptySet
                <5>3. Monus(t.active, 0) = t.active
                    BY <1>2 DEF Monus, AtLeast
                <5>4. QED
                    BY <1>1, <1>7, <4>2, <5>2, <5>3 DEF n
            <4>3. QED
                BY <4>1, <4>2
        <3>3. (InRange(t) => InRange(u)) /\ Keeps(t, u)
            BY <2>2, <3>1, <3>2, ShiftedActive
        <3>4. PanesOf(t) \ doomed \subseteq PanesOf(u)
            <4>1. PanesOf(Lifted(t, p)) = PanesOf(t) \ {t.leaf[p]}
                BY <2>2, LiftedIs
            <4>2. PanesOf(u) = PanesOf(Lifted(t, p))
                BY <3>1 DEF PanesOf
            <4>3. t.leaf[p] \in doomed
                BY <1>9 DEF MetAt
            <4>4. QED
                BY <4>1, <4>2, <4>3
        <3>5. QED
            BY <3>3, <3>4
    <2>3. QED
        BY <2>1, <2>2
<1>10. AtMostOne(t, doomed) => Fine
    BY <1>1, <1>8, <1>9 DEF Met
<1>11. QED
    BY <1>1, <1>6, <1>7, <1>10

-------------------------------------------------------------------------------
\* Steps: what every operation keeps.

\* When panes leave, the active one stays the active one.
Settles(t, u) == PanesOf(u) \subseteq PanesOf(t) /\ PanesOf(u) # PanesOf(t) => Keeps(t, u)

Steps(t, u) ==
    /\ Good(u) \/ Gone(u)
    /\ InRange(t) => InRange(u)
    /\ Settles(t, u)

\* The panes, where they are, which are shown and which is active are the same.
LEMMA SameStep ==
    ASSUME NEW t, Good(t) \/ Gone(t), NEW u \in Tab,
           u.leaf = t.leaf, u.split = t.split, u.pty = t.pty, u.zoomed = t.zoomed, u.active = t.active
    PROVE  /\ Good(t) => Good(u)
           /\ Steps(t, u)
           /\ PanesOf(u) = PanesOf(t) /\ LeafCount(u) = LeafCount(t)
           /\ ActivePane(u) = ActivePane(t)
<1>1. (Good(t) => Good(u)) /\ (Gone(t) => Gone(u))
    BY SameTree
<1>2. PanesOf(u) = PanesOf(t) /\ LeafCount(u) = LeafCount(t) /\ ActivePane(u) = ActivePane(t)
    BY SameLeaves
<1>3. QED
    BY <1>1, <1>2 DEF Steps, InRange, Settles

LEMMA AlikeStep ==
    ASSUME NEW t, Good(t), NEW u, Alike(t, u)
    PROVE  /\ Good(u) /\ Steps(t, u) /\ u.dead = t.dead
           /\ PanesOf(u) = PanesOf(t) /\ LeafCount(u) = LeafCount(t)
           /\ ActivePane(u) = ActivePane(t)
           /\ \A i : HasIndex(u, i) <=> HasIndex(t, i)
<1>1. Good(u) /\ u.leaf = t.leaf /\ u.active = t.active /\ u.dead = t.dead
    BY AlikeGood DEF Alike
<1>2. PanesOf(u) = PanesOf(t) /\ LeafCount(u) = LeafCount(t) /\ ActivePane(u) = ActivePane(t)
    BY <1>1, SameLeaves
<1>3. \A i : HasIndex(u, i) <=> HasIndex(t, i)
    BY <1>1, SameLeaves
<1>4. QED
    BY <1>1, <1>2, <1>3 DEF Steps, InRange, Settles

\* A step of a tab that is unzoomed first.
LEMMA AlikeThenStep ==
    ASSUME NEW s, Good(s), NEW t, Alike(s, t), NEW u, Steps(t, u)
    PROVE  Steps(s, u)
<1>1. /\ PanesOf(t) = PanesOf(s) /\ LeafCount(t) = LeafCount(s)
      /\ ActivePane(t) = ActivePane(s) /\ t.active = s.active
    BY AlikeStep DEF Alike
<1>2. InRange(s) <=> InRange(t)
    BY <1>1 DEF InRange
<1>3. Settles(t, u) => Settles(s, u)
    BY <1>1 DEF Settles, Keeps
<1>4. QED
    BY <1>2, <1>3 DEF Steps

\* And one of a step followed by a change that shows the same.
LEMMA StepThenSame ==
    ASSUME NEW t, NEW u, Steps(t, u), NEW v \in Tab,
           v.leaf = u.leaf, v.split = u.split, v.pty = u.pty, v.zoomed = u.zoomed, v.active = u.active
    PROVE  Steps(t, v)
<1>1. (Good(u) => Good(v)) /\ (Gone(u) => Gone(v))
    BY SameTree
<1>2. PanesOf(v) = PanesOf(u) /\ LeafCount(v) = LeafCount(u) /\ ActivePane(v) = ActivePane(u)
    BY SameLeaves
<1>3. InRange(u) <=> InRange(v)
    BY <1>2 DEF InRange
<1>4. Settles(t, u) => Settles(t, v)
    BY <1>2 DEF Settles, Keeps
<1>5. QED
    BY <1>1, <1>3, <1>4 DEF Steps

LEMMA OtherActive ==
    ASSUME NEW t, Good(t), NEW i, HasIndex(t, i), NEW u, u = [t EXCEPT !.active = i]
    PROVE  Good(u) /\ Steps(t, u) /\ InRange(u) /\ PanesOf(u) = PanesOf(t) /\ u.dead = t.dead
<1>1. i \in Nat /\ LeafCount(t) \in Nat /\ i < LeafCount(t)
    BY LeafCountIs DEF HasIndex, Good
<1>2. /\ Good(u)
      /\ PanesOf(u) = PanesOf(t) /\ LeafCount(u) = LeafCount(t)
      /\ u.active = i /\ u.dead = t.dead
    BY <1>1, SetActive
<1>3. QED
    BY <1>1, <1>2 DEF Steps, InRange, Settles

LEMMA InsertedStep ==
    ASSUME NEW t, Good(t), NEW i, NEW axis \in Axes, NEW second \in BOOLEAN, NEW top,
           NEW pane \in Panes, pane \notin PanesOf(t), NEW size \in Size,
           NEW u, u = SplitAndInserted(t, i, axis, second, top, pane, size)
    PROVE  Good(u) /\ Steps(t, u) /\ u.dead = t.dead
<1>1. /\ Good(u)
      /\ u.dead = t.dead
      /\ InRange(t) => InRange(u)
      /\ Alike(t, u) \/ PanesOf(u) = PanesOf(t) \cup {pane}
    BY SplitAndInsertedIs
<1>2. Settles(t, u)
    <2>1. CASE Alike(t, u)
        BY <2>1, AlikeStep DEF Steps
    <2>2. CASE PanesOf(u) = PanesOf(t) \cup {pane}
        BY <2>2 DEF Settles
    <2>3. QED
        BY <1>1, <2>1, <2>2
<1>3. QED
    BY <1>1, <1>2 DEF Steps

-------------------------------------------------------------------------------
\* A split is dragged.

LEMMA GivenIs ==
    ASSUME NEW u, Good(u), NEW p \in DOMAIN u.leaf \cup DOMAIN u.split,
           NEW v, v = IF p \in DOMAIN u.split THEN Fit(u, p, Room(u, p))
                      ELSE [u EXCEPT !.pty[u.leaf[p]] = Room(u, p)]
    PROVE  Alike(u, v)
<1>1. u \in Tab /\ Room(u, p) \in Size
    BY RoomIs DEF Good
<1>2. CASE p \in DOMAIN u.split
    BY <1>1, <1>2, FitIs
<1>3. CASE p \notin DOMAIN u.split
    <2>1. u.leaf[p] \in DOMAIN u.pty
        BY <1>3 DEF Good, PanesOf
    <2>2. v = [u EXCEPT !.pty[u.leaf[p]] = Room(u, p)]
        BY <1>3
    <2>3. QED
        BY <1>1, <2>1, <2>2, PtySet
<1>4. QED
    BY <1>2, <1>3

Cascades(t) == {w \in [tree : Tab, at : Path \cup {Done}] : Alike(t, w.tree) /\ Position(w.tree, w.at)}

LEMMA CascadedIs ==
    ASSUME NEW t, Good(t), NEW from \in DOMAIN t.split
    PROVE  Alike(t, Cascaded(t, from))
<1>. DEFINE N == 2 * LeafCount(t)
            Given(u, p) == IF p \in DOMAIN u.split THEN Fit(u, p, Room(u, p))
                           ELSE [u EXCEPT !.pty[u.leaf[p]] = Room(u, p)]
            Next1(w) == IF w.at = Done THEN w
                        ELSE [tree |-> Given(w.tree, w.at), at |-> PreorderNext(w.tree, w.at)]
            base == [tree |-> t, at |-> PreorderNext(t, from)]
            S == Cascades(t)
            Eq(f) == f = [i \in 0..N |-> IF i = 0 THEN base ELSE Next1(f[i - 1])]
            step == [x \in (1..N) \X S |-> Next1(x[2])]
            walk == CHOOSE f : Eq(f)
<1>1. N \in Nat
    BY LeafCountIs DEF Good
<1>2. ASSUME NEW w \in S PROVE Next1(w) \in S
    <2>1. Alike(t, w.tree) /\ Position(w.tree, w.at) /\ Good(w.tree)
        BY AlikeGood DEF Cascades
    <2>2. CASE w.at = Done
        BY <2>2
    <2>3. CASE w.at # Done
        <3>. DEFINE u == Given(w.tree, w.at)
                    at == PreorderNext(w.tree, w.at)
        <3>1. w.at \in DOMAIN w.tree.leaf \cup DOMAIN w.tree.split
            BY <2>1, <2>3 DEF Position
        <3>2. Alike(w.tree, u)
            BY <2>1, <3>1, GivenIs
        <3>. HIDE DEF Given
        <3>3. Alike(t, u) /\ u \in Tab
            BY <2>1, <3>2, AlikeTransitive DEF Alike
        <3>4. Position(w.tree, at)
            BY <2>1, <3>1, NextPosition
        <3>5. Position(u, at) /\ at \in Path \cup {Done}
            BY <3>2, <3>3, <3>4, AlikePosition, PathOrDone
        <3>6. Next1(w) = [tree |-> u, at |-> at]
            BY <2>3
        <3>. HIDE DEF u, at, Next1
        <3>7. [tree |-> u, at |-> at] \in S
            BY <3>3, <3>5 DEF Cascades
        <3>8. QED
            BY <3>6, <3>7
    <2>4. QED
        BY <2>2, <2>3
<1>. HIDE DEF Next1
<1>3. step \in [(1..N) \X S -> S]
    BY <1>2
<1>4. base \in S
    <2>1. t \in Tab /\ Alike(t, t)
        BY AlikeSelf DEF Good
    <2>2. Position(t, PreorderNext(t, from))
        BY NextPosition
    <2>3. PreorderNext(t, from) \in Path \cup {Done}
        BY <2>1, <2>2, PathOrDone
    <2>4. QED
        BY <2>1, <2>2, <2>3 DEF Cascades
<1>5. \A i \in 1..N, u \in S : step[<<i, u>>] = Next1(u)
    OBVIOUS
<1>6. Cascaded(t, from) = walk[N].tree
    BY DEF Cascaded, Next1
<1>. HIDE DEF S, step, base, N
<1>7. \E f : Eq(f)
    <2>1. PICK g : Runs(N, S, base, step, g)
        BY <1>1, <1>3, <1>4, Iterated
    <2>2. ASSUME NEW i \in 0..N
          PROVE g[i] = IF i = 0 THEN base ELSE Next1(g[i - 1])
        <3>1. CASE i = 0
            BY <3>1, <2>1 DEF Runs
        <3>2. CASE i # 0
            <4>1. i \in 1..N /\ i - 1 \in 0..N
                BY <3>2, <1>1
            <4>2. g[i - 1] \in S
                BY <4>1, <2>1 DEF Runs
            <4>3. QED
                BY <4>1, <4>2, <2>1, <1>5, <3>2 DEF Runs
        <3>3. QED
            BY <3>1, <3>2
    <2>3. g = [i \in 0..N |-> IF i = 0 THEN base ELSE Next1(g[i - 1])]
        BY <2>1, <2>2 DEF Runs
    <2>4. QED
        BY <2>3
<1>8. Eq(walk)
    BY <1>7
<1>. HIDE DEF walk
<1>9. walk[0] \in S
    BY <1>1, <1>4, <1>8
<1>10. ASSUME NEW i \in 1..N, walk[i - 1] \in S PROVE walk[i] \in S
    <2>1. walk[i] = Next1(walk[i - 1])
        BY <1>1, <1>8
    <2>2. QED
        BY <2>1, <1>2, <1>10
<1>11. \A i \in 0..N : walk[i] \in S
    BY <1>1, <1>9, <1>10, IteratedAll
<1>12. walk[N] \in S
    BY <1>1, <1>11
<1>13. QED
    BY <1>6, <1>12 DEF S, Cascades

LEMMA SplitMovedIs ==
    ASSUME NEW t, Good(t), NEW p \in DOMAIN t.split, NEW delta \in Int
    PROVE  Alike(t, SplitMoved(t, p, delta))
<1>. DEFINE split == t.split[p]
            axis == split.axis
            whole == Whole(split)[axis]
            wanted == AtLeast(split.part[1][axis] + delta, 1)
            first == IF wanted > whole - 2 THEN whole - 2 ELSE wanted
            rest == Monus(whole, first + 1)
            moved == [t EXCEPT !.split[p].part[1][axis] = first,
                               !.split[p].part[2][axis] = rest]
<1>1. t \in Tab /\ split \in Split
    BY TabFields DEF Good
<1>2. /\ axis \in Axes /\ split.part \in [{1, 2} -> Size]
      /\ split.part[1] \in Size /\ split.part[2] \in Size
      /\ split.part[1][axis] \in Nat /\ Whole(split) \in Size
    BY <1>1, SplitIs
<1>3. whole \in Nat
    BY <1>2, SizeWith
<1>4. wanted \in Int
    <2>1. split.part[1][axis] + delta \in Int /\ 1 \in Int
        BY <1>2
    <2>2. QED
        BY <2>1, Numbers
<1>5. first \in Int
  <2>. HIDE DEF whole, wanted
  <2>. QED
    BY <1>3, <1>4
<1>6. rest \in Nat
    <2>1. whole \in Int /\ first + 1 \in Int
        BY <1>3, <1>5
    <2>. HIDE DEF whole, first
    <2>2. QED
        BY <2>1, Numbers
<1>7. SplitMoved(t, p, delta) = IF first < 0 THEN [t EXCEPT !.fault = "wraps"] ELSE Cascaded(moved, p)
    BY DEF SplitMoved
<1>. HIDE DEF first, rest, whole, wanted
<1>8. CASE first < 0
    BY <1>1, <1>7, <1>8, SetFault
<1>9. CASE ~(first < 0)
    <2>. DEFINE a == [split.part[1] EXCEPT ![axis] = first]
                b == [split.part[2] EXCEPT ![axis] = rest]
                parts == [[split.part EXCEPT ![1] = a] EXCEPT ![2] = b]
                set == [split EXCEPT !.part = parts]
    <2>1. first \in Nat
        BY <1>5, <1>9
    <2>2. a \in Size /\ b \in Size
      <3>. HIDE DEF split, axis
      <3>. QED
        BY <1>2, <1>6, <2>1, SizeWith
    <2>3. parts \in [{1, 2} -> Size]
      <3>. HIDE DEF a, b, split
      <3>. QED
        BY <1>2, <2>2
    <2>4. set \in Split
      <3>. HIDE DEF parts, split
      <3>. QED
        BY <1>1, <2>3 DEF Split
    <2>5. [split EXCEPT !.part[1][axis] = first, !.part[2][axis] = rest] = set
        <3>1. split \in [axis : Axes, part : [{1, 2} -> Size]]
            BY <1>1 DEF Split
        <3>2. QED
            BY <3>1
    <2>6. Alike(t, moved)
        <3>. DEFINE x == [t.split EXCEPT ![p].part[1][axis] = first, ![p].part[2][axis] = rest]
        <3>1. t.split \in [DOMAIN t.split -> Split] /\ DOMAIN t.split \subseteq Path
            BY <1>1, TabFields
        <3>2. x[p] = [split EXCEPT !.part[1][axis] = first, !.part[2][axis] = rest]
            BY <3>1
        <3>3. DOMAIN x = DOMAIN t.split /\ \A q \in DOMAIN t.split : q # p => x[q] = t.split[q]
            BY <3>1
        <3>4. x = [q \in DOMAIN x |-> x[q]]
            OBVIOUS
        <3>5. x[p] = set
            BY <2>5, <3>2
        <3>6. /\ moved.split = x
              /\ moved.leaf = t.leaf /\ moved.pty = t.pty /\ moved.active = t.active
              /\ moved.dead = t.dead /\ moved.asked = t.asked /\ moved.zoomed = t.zoomed
              /\ moved.size = t.size /\ moved.before = t.before /\ moved.fault = t.fault
            BY <1>1 DEF Tab
        <3>. HIDE DEF x, set
        <3>7. x \in [DOMAIN t.split -> Split]
            BY <2>4, <3>1, <3>3, <3>4, <3>5
        <3>8. x \in Splits
            BY <3>1, <3>7 DEF Splits
        <3>9. moved \in Tab
            <4>. DEFINE m == [t EXCEPT !.split[p].part[1][axis] = first]
                        y == [t.split EXCEPT ![p].part[1][axis] = first]
            <4>1. m = [t EXCEPT !.split = y]
                BY <1>1 DEF Tab
            <4>2. moved = [m EXCEPT !.split[p].part[2][axis] = rest]
                OBVIOUS
            <4>. HIDE DEF moved, m, y
            <4>3. moved = [m EXCEPT !.split = moved.split]
                BY <1>1, <4>1, <4>2 DEF Tab
            <4>4. QED
                BY <1>1, <3>6, <3>8, <4>1, <4>3 DEF Tab
        <3>10. QED
            BY <3>3, <3>6, <3>9 DEF Alike
    <2>. HIDE DEF moved
    <2>7. Good(moved) /\ p \in DOMAIN moved.split
        BY <2>6, AlikeGood DEF Alike
    <2>8. Alike(moved, Cascaded(moved, p))
        BY <2>7, CascadedIs
    <2>9. QED
        BY <1>7, <1>9, <2>6, <2>8, AlikeTransitive
<1>10. QED
    BY <1>8, <1>9

-------------------------------------------------------------------------------
\* Panes change places.

LEMMA PermutedIs ==
    ASSUME NEW t, Good(t), NEW f \in [DOMAIN t.leaf -> DOMAIN t.leaf],
           \A p, q \in DOMAIN t.leaf : f[p] = f[q] => p = q,
           NEW u, u = [t EXCEPT !.leaf = [p \in DOMAIN t.leaf |-> t.leaf[f[p]]]]
    PROVE  /\ Good(u) /\ PanesOf(u) = PanesOf(t) /\ LeafCount(u) = LeafCount(t)
           /\ u.active = t.active /\ u.dead = t.dead
           /\ \A i : HasIndex(u, i) <=> HasIndex(t, i)
<1>. DEFINE L == DOMAIN t.leaf
            leaf == [p \in L |-> t.leaf[f[p]]]
<1>1. /\ t \in Tab /\ ProperTree(t) /\ t.leaf \in [L -> Panes] /\ L \subseteq Path /\ IsFiniteSet(L)
      /\ \A p, q \in L : t.leaf[p] = t.leaf[q] => p = q
    BY TabFields DEF Good, ProperTree, Proper
<1>2. f \in Surjection(L, L)
    <2>1. f \in Injection(L, L)
        BY DEF Injection, IsInjective
    <2>2. QED
        BY <1>1, <2>1, FS_Injection
<1>3. \A q \in L : \E p \in L : f[p] = q
    BY <1>2 DEF Surjection
<1>4. leaf \in [L -> Panes]
    BY <1>1
<1>5. leaf \in Leaves
    BY <1>1, <1>4 DEF Leaves
<1>6. {leaf[p] : p \in L} = {t.leaf[p] : p \in L}
    <2>1. ASSUME NEW p \in L PROVE leaf[p] \in {t.leaf[q] : q \in L}
        OBVIOUS
    <2>2. ASSUME NEW q \in L PROVE t.leaf[q] \in {leaf[p] : p \in L}
        <3>1. PICK p \in L : f[p] = q
            BY <1>3
        <3>2. leaf[p] = t.leaf[q]
            BY <3>1
        <3>3. QED
            BY <3>2
    <2>. HIDE DEF leaf, L
    <2>3. QED
        BY <2>1, <2>2
<1>7. \A p, q \in L : leaf[p] = leaf[q] => p = q
    BY <1>1
<1>8. DOMAIN leaf = L
    OBVIOUS
<1>. HIDE DEF leaf
<1>9. /\ u \in Tab
      /\ u.leaf = leaf /\ u.split = t.split /\ u.pty = t.pty /\ u.zoomed = t.zoomed
      /\ u.active = t.active /\ u.dead = t.dead
    BY <1>1, <1>5 DEF Tab, leaf
<1>10. PanesOf(u) = PanesOf(t) /\ LeafCount(u) = LeafCount(t)
    <2>1. PanesOf(u) = {leaf[p] : p \in L}
        BY <1>8, <1>9 DEF PanesOf
    <2>2. PanesOf(t) = {t.leaf[p] : p \in L}
        BY DEF PanesOf
    <2>3. QED
        BY <1>6, <1>8, <1>9, <2>1, <2>2 DEF LeafCount
<1>11. Good(u)
    BY <1>1, <1>7, <1>8, <1>9, <1>10 DEF Good, ProperTree
<1>12. QED
    BY <1>9, <1>10, <1>11 DEF HasIndex

\* The sizes follow.
LEMMA PermutedStep ==
    ASSUME NEW t, Good(t), NEW f \in [DOMAIN t.leaf -> DOMAIN t.leaf],
           \A p, q \in DOMAIN t.leaf : f[p] = f[q] => p = q,
           NEW u, u = SizesApplied([t EXCEPT !.leaf = [p \in DOMAIN t.leaf |-> t.leaf[f[p]]]])
    PROVE  /\ Good(u) /\ Steps(t, u) /\ u.dead = t.dead
           /\ PanesOf(u) = PanesOf(t) /\ u.active = t.active
           /\ \A i : HasIndex(u, i) <=> HasIndex(t, i)
<1>. DEFINE v == [t EXCEPT !.leaf = [p \in DOMAIN t.leaf |-> t.leaf[f[p]]]]
<1>1. /\ Good(v) /\ PanesOf(v) = PanesOf(t) /\ LeafCount(v) = LeafCount(t)
      /\ v.active = t.active /\ v.dead = t.dead
      /\ \A i : HasIndex(v, i) <=> HasIndex(t, i)
    BY PermutedIs
<1>2. u = SizesApplied(v)
    OBVIOUS
<1>. HIDE DEF v
<1>3. Alike(v, u)
    BY <1>1, <1>2, SizesAppliedIs
<1>4. /\ Good(u) /\ u.dead = t.dead /\ PanesOf(u) = PanesOf(t) /\ LeafCount(u) = LeafCount(t)
      /\ u.active = t.active
    BY <1>1, <1>3, AlikeStep DEF Alike
<1>5. \A i : HasIndex(u, i) <=> HasIndex(t, i)
    BY <1>1, <1>3, AlikeStep
<1>6. Steps(t, u)
    BY <1>4 DEF Steps, InRange, Settles
<1>7. QED
    BY <1>4, <1>5, <1>6

\* Adding a constant to the index of a leaf, modulo their number, permutes them.
LEMMA Turned ==
    ASSUME NEW n \in Nat, n > 1, NEW c \in {1, n - 1}, NEW i \in 0..n - 1, NEW j \in 0..n - 1
    PROVE  /\ (i + c) % n \in 0..n - 1
           /\ (i + c) % n = (j + c) % n => i = j
<1>1. \A a \in 0..n - 1 : a % n = a
    OBVIOUS
<1>2. \A a \in n..2 * n - 1 : a % n = a - n
    OBVIOUS
<1>3. CASE c = 1
    <2>1. (i + 1) % n = IF i = n - 1 THEN 0 ELSE i + 1
        BY <1>1, <1>2
    <2>2. (j + 1) % n = IF j = n - 1 THEN 0 ELSE j + 1
        BY <1>1, <1>2
    <2>3. QED
        BY <2>1, <2>2, <1>3
<1>4. CASE c = n - 1
    <2>1. (i + (n - 1)) % n = IF i = 0 THEN n - 1 ELSE i - 1
        BY <1>1, <1>2
    <2>2. (j + (n - 1)) % n = IF j = 0 THEN n - 1 ELSE j - 1
        BY <1>1, <1>2
    <2>3. QED
        BY <2>1, <2>2, <1>4
<1>5. QED
    BY <1>3, <1>4

LEMMA RotatedStep ==
    ASSUME NEW t, Good(t), NEW n, n = LeafCount(t), n > 1, NEW c \in {1, n - 1},
           NEW u, u = SizesApplied([t EXCEPT !.leaf = [p \in DOMAIN t.leaf |->
                                                        t.leaf[LeafAt(t, (LeafIndex(t, p) + c) % n)]]])
    PROVE  Good(u) /\ Steps(t, u) /\ u.dead = t.dead
<1>. DEFINE L == DOMAIN t.leaf
            Turn(p) == (LeafIndex(t, p) + c) % n
            f == [p \in L |-> LeafAt(t, Turn(p))]
<1>1. ProperTree(t) /\ n \in Nat
    BY LeafCountIs DEF Good
<1>2. \A p \in L : LeafIndex(t, p) \in 0..n - 1
    BY <1>1, LeafIndexIs
<1>3. \A p, q \in L : Turn(p) \in 0..n - 1 /\ (Turn(p) = Turn(q) => LeafIndex(t, p) = LeafIndex(t, q))
    BY <1>1, <1>2, Turned
<1>4. \A p \in L : LeafAt(t, Turn(p)) \in L /\ LeafIndex(t, LeafAt(t, Turn(p))) = Turn(p)
  <2>. HIDE DEF Turn
  <2>. QED
    BY <1>1, <1>3, LeafAtIs
<1>5. f \in [L -> L]
    BY <1>4
<1>6. ASSUME NEW p \in L, NEW q \in L, f[p] = f[q] PROVE p = q
    <2>1. Turn(p) = Turn(q)
        BY <1>4, <1>6
    <2>2. LeafIndex(t, p) = LeafIndex(t, q)
        BY <1>3, <2>1
    <2>3. QED
        BY <1>1, <2>2, LeafIndexOrders
<1>7. u = SizesApplied([t EXCEPT !.leaf = [p \in L |-> t.leaf[f[p]]]])
    <2>1. [p \in L |-> t.leaf[f[p]]] = [p \in L |-> t.leaf[LeafAt(t, Turn(p))]]
        OBVIOUS
    <2>2. QED
        BY <2>1
<1>. HIDE DEF f
<1>8. QED
    BY <1>5, <1>6, <1>7, PermutedStep

\* What swap_active_with_index leaves: two leaves have exchanged their panes.
Exchanged(t, a, b) == [p \in DOMAIN t.leaf |-> t.leaf[IF p = a THEN b ELSE IF p = b THEN a ELSE p]]
Swapped(t, a, b) == SizesApplied([t EXCEPT !.leaf = Exchanged(t, a, b)])
WithActive(t, n) == [t EXCEPT !.active = n]

LEMMA ExchangedIs ==
    ASSUME NEW t, Good(t), NEW i, HasIndex(t, i), HasIndex(t, t.active),
           NEW a, a = LeafAt(t, i), NEW b, b = LeafAt(t, t.active)
    PROVE  /\ a \in DOMAIN t.leaf /\ b \in DOMAIN t.leaf
           /\ Exchanged(t, a, b) = [t.leaf EXCEPT ![a] = PaneAt(t, t.active),
                                      ![b] = IF i = t.active THEN PaneAt(t, t.active) ELSE PaneAt(t, i)]
<1>. DEFINE L == DOMAIN t.leaf
            leaf == [t.leaf EXCEPT ![a] = PaneAt(t, t.active),
                       ![b] = IF i = t.active THEN PaneAt(t, t.active) ELSE PaneAt(t, i)]
<1>1. a \in L /\ b \in L /\ (i = t.active => a = b)
    BY PaneAtIs
<1>2. PaneAt(t, t.active) = t.leaf[b] /\ PaneAt(t, i) = t.leaf[a]
    BY DEF PaneAt
<1>3. t.leaf = [p \in L |-> t.leaf[p]]
    BY TabFields DEF Good
<1>4. leaf = [p \in L |-> leaf[p]]
    BY <1>3
<1>5. \A p \in L : leaf[p] = t.leaf[IF p = a THEN b ELSE IF p = b THEN a ELSE p]
    BY <1>1, <1>2, <1>3
<1>. HIDE DEF leaf
<1>6. leaf = Exchanged(t, a, b)
    BY <1>4, <1>5 DEF Exchanged
<1>7. QED
    BY <1>1, <1>6 DEF leaf

LEMMA SwappedStep ==
    ASSUME NEW t, Good(t), NEW i, HasIndex(t, i),
           NEW a \in DOMAIN t.leaf, NEW b \in DOMAIN t.leaf, NEW v, v = Swapped(t, a, b), HasIndex(t, t.active),
           NEW n \in {i, v.active}, NEW u, u = WithActive(v, n)
    PROVE  Good(u) /\ Steps(t, u) /\ u.dead = t.dead
<1>. DEFINE L == DOMAIN t.leaf
            f == [p \in L |-> IF p = a THEN b ELSE IF p = b THEN a ELSE p]
<1>1. f \in [L -> L] /\ \A p, q \in L : f[p] = f[q] => p = q
    OBVIOUS
<1>2. Exchanged(t, a, b) = [p \in L |-> t.leaf[f[p]]]
    BY DEF Exchanged
<1>3. v = SizesApplied([t EXCEPT !.leaf = [p \in L |-> t.leaf[f[p]]]])
    <2>. HIDE DEF f
    <2>. QED
        BY <1>2 DEF Swapped
<1>. HIDE DEF f
<1>4. /\ Good(v) /\ v.dead = t.dead /\ PanesOf(v) = PanesOf(t) /\ v.active = t.active
      /\ \A k : HasIndex(v, k) <=> HasIndex(t, k)
    BY <1>1, <1>3, PermutedStep
<1>5. HasIndex(v, n) /\ u = [v EXCEPT !.active = n]
    BY <1>4 DEF WithActive
<1>6. Good(u) /\ InRange(u) /\ PanesOf(u) = PanesOf(v) /\ u.dead = v.dead
    BY <1>4, <1>5, OtherActive
<1>7. QED
    BY <1>4, <1>6 DEF Steps, Settles

LEMMA WithoutStep ==
    ASSUME NEW t, Good(t), NEW doomed, AtMostOne(t, doomed), NEW u, u = Without(t, doomed)
    PROVE  Steps(t, u) /\ u.dead \subseteq t.dead
    BY WithoutIs DEF Steps, Settles

LEMMA MovedStep ==
    ASSUME NEW t, Good(t), NEW pane \in PanesOf(t), NEW target, NEW axis \in Axes, NEW second \in BOOLEAN,
           NEW u, u = Moved(t, Without(t, {pane}), pane, target, axis, second)
    PROVE  Steps(t, u) /\ u.dead \subseteq t.dead
<1>. DEFINE left == Without(t, {pane})
            i == IndexOf(t, target)
            put == SplitAndInserted(left, i, axis, second, FALSE, pane, t.pty[pane])
            placed == IF pane \in PanesOf(left) THEN left ELSE put
            dead == t.dead \cap PanesOf(placed)
<1>1. t \in Tab /\ pane \in Panes /\ t.pty[pane] \in Size
    BY TabFields DEF Good
<1>2. AtMostOne(t, {pane})
    BY DEF AtMostOne
<1>3. /\ Good(left) \/ Gone(left)
      /\ Steps(t, left)
      /\ InRange(t) => InRange(left)
      /\ Keeps(t, left)
      /\ Good(left) => PanesOf(t) \ {pane} \subseteq PanesOf(left)
    BY <1>2, WithoutIs, WithoutStep
<1>4. u = IF t.fault # "none" THEN t ELSE [placed EXCEPT !.dead = dead]
    BY DEF Moved
<1>. HIDE DEF left, i
<1>5. CASE t.fault # "none"
    BY <1>1, <1>4, <1>5, AlikeSelf, AlikeStep
<1>6. CASE t.fault = "none"
    <2>1. Steps(t, placed)
        <3>1. CASE pane \in PanesOf(left)
            BY <1>3, <3>1
        <3>2. CASE pane \notin PanesOf(left) /\ Gone(left)
            <4>1. LeafCount(left) = 0
                BY <3>2, FS_EmptySet DEF Gone, LeafCount
            <4>2. ~HasIndex(left, i)
                BY <4>1 DEF HasIndex
            <4>3. put = left
                BY <4>2 DEF SplitAndInserted
            <4>4. QED
                BY <1>3, <3>2, <4>3
        <3>3. CASE pane \notin PanesOf(left) /\ Good(left)
            <4>1. /\ Good(put)
                  /\ InRange(left) => InRange(put)
                  /\ Alike(left, put) \/ PanesOf(put) = PanesOf(left) \cup {pane}
                <5>. DEFINE size == t.pty[pane]
                            top == FALSE
                <5>1. put = SplitAndInserted(left, i, axis, second, top, pane, size) /\ size \in Size
                    BY <1>1
                <5>. HIDE DEF put, size, top
                <5>2. Good(left) /\ pane \in Panes /\ pane \notin PanesOf(left)
                    BY <1>1, <3>3
                <5>3. QED
                    BY <5>1, <5>2, SplitAndInsertedIs
            <4>. HIDE DEF put
            <4>2. Settles(t, put)
                <5>1. CASE Alike(left, put)
                    <6>1. PanesOf(put) = PanesOf(left) /\ ActivePane(put) = ActivePane(left)
                        BY <3>3, <5>1, AlikeStep
                    <6>2. QED
                        BY <1>3, <6>1 DEF Settles, Keeps
                <5>2. CASE PanesOf(put) = PanesOf(left) \cup {pane}
                    BY <1>3, <3>3, <5>2 DEF Settles
                <5>3. QED
                    BY <4>1, <5>1, <5>2
            <4>3. Steps(t, put)
                BY <1>3, <4>1, <4>2 DEF Steps
            <4>4. QED
                BY <3>3, <4>3
        <3>4. QED
            BY <1>3, <3>1, <3>2, <3>3
    <2>2. u = [placed EXCEPT !.dead = dead]
        BY <1>4, <1>6
    <2>3. dead \subseteq t.dead /\ dead \subseteq Panes
        BY <1>1, TabFields
    <2>. HIDE DEF placed, dead
    <2>4. placed \in Tab
        BY <2>1 DEF Steps, Good, Gone
    <2>5. /\ u \in Tab
          /\ u.leaf = placed.leaf /\ u.split = placed.split /\ u.pty = placed.pty
          /\ u.zoomed = placed.zoomed /\ u.active = placed.active /\ u.dead = dead
        BY <2>2, <2>3, <2>4 DEF Tab
    <2>6. QED
        BY <2>1, <2>3, <2>5, StepThenSame
<1>7. QED
    BY <1>5, <1>6

-------------------------------------------------------------------------------
\* The invariant: a tab is a good tree, or all its panes are gone; no more
\* panes are dead than may be.

TabInv ==
    /\ Good(tab) \/ Gone(tab)
    /\ IsFiniteSet(tab.dead)
    /\ Cardinality(tab.dead) <= Deaths

LEMMA UsableIs ==
    ASSUME TabInv, DOMAIN tab.leaf # {}
    PROVE  Good(tab) /\ tab \in Tab /\ ProperTree(tab)
    BY DEF TabInv, Gone, Good

LEMMA NoRequestIs == NoRequest \in Request /\ InitialSize \in Size
<1>1. InitialSize \in Size
    BY SplitTreeAssumption DEF Size
<1>2. QED
    BY <1>1 DEF NoRequest, Request, Axes

LEMMA InitTab ==
    ASSUME Init
    PROVE  TabInv /\ InRange(tab)
<1>1. PICK pane \in Panes :
         tab = [leaf |-> [p \in {<<>>} |-> pane], split |-> [p \in {} |-> NoPane], active |-> 0, zoomed |-> NoPane,
                size |-> InitialSize, before |-> InitialSize, pty |-> [x \in {pane} |-> InitialSize],
                dead |-> {}, asked |-> NoRequest, fault |-> "none"]
    BY DEF Init
<1>. DEFINE leaf == [p \in {<<>>} |-> pane]
            split == [p \in {} |-> NoPane]
            pty == [x \in {pane} |-> InitialSize]
<1>2. tab = [leaf |-> leaf, split |-> split, active |-> 0, zoomed |-> NoPane,
             size |-> InitialSize, before |-> InitialSize, pty |-> pty,
             dead |-> {}, asked |-> NoRequest, fault |-> "none"]
    BY <1>1
<1>3. leaf \in Leaves
    <2>1. leaf \in [{<<>>} -> Panes] /\ {<<>>} \in SUBSET Path
        BY RootPath
    <2>2. QED
        BY <2>1 DEF Leaves
<1>4. split \in Splits
    <2>1. split \in [{} -> Split] /\ {} \in SUBSET Path
        OBVIOUS
    <2>2. QED
        BY <2>1 DEF Splits
<1>5. pty \in Ptys
    <2>1. pty \in [{pane} -> Size] /\ {pane} \in SUBSET Panes
        BY NoRequestIs
    <2>2. QED
        BY <2>1 DEF Ptys
<1>6. DOMAIN leaf = {<<>>} /\ leaf[<<>>] = pane /\ DOMAIN split = {} /\ DOMAIN pty = {pane}
    OBVIOUS
<1>. HIDE DEF leaf, split, pty
<1>7. /\ tab \in Tab
      /\ tab.leaf = leaf /\ tab.split = split /\ tab.pty = pty
      /\ tab.active = 0 /\ tab.zoomed = NoPane /\ tab.dead = {}
    BY <1>2, <1>3, <1>4, <1>5, NoRequestIs DEF Tab
<1>8. ProperTree(tab)
    <2>1. Proper({<<>>}, {})
        BY RootPath, FS_Singleton DEF Proper
    <2>2. QED
        BY <2>1, <1>6, <1>7 DEF ProperTree
<1>9. PanesOf(tab) = {pane}
    BY <1>6, <1>7 DEF PanesOf
<1>10. Good(tab)
    BY <1>6, <1>7, <1>8, <1>9 DEF Good
<1>11. IsFiniteSet(tab.dead) /\ Cardinality(tab.dead) <= Deaths
    BY <1>7, FS_EmptySet, SplitTreeAssumption
<1>12. LeafCount(tab) = 1
    BY <1>6, <1>7, FS_Singleton DEF LeafCount
<1>13. QED
    BY <1>7, <1>10, <1>11, <1>12 DEF TabInv, InRange

\* What a step does: the panes of all but prune_dead_panes are at most one fewer.
Kept == Steps(tab, tab') /\ tab'.dead \subseteq tab.dead

LEMMA AskSplitStep ==
    ASSUME TabInv, NEW pane \in PanesOf(tab), NEW axis \in Axes, NEW second \in BOOLEAN, NEW top \in BOOLEAN,
           AskSplit(pane, axis, second, top)
    PROVE  Kept
<1>. DEFINE t == IF top THEN tab ELSE Unzoomed(tab)
            i == IndexOf(tab, pane)
            size == IF top THEN SplitSize(t.size, axis, second).part[2] ELSE t.asked.size
            asked == [index |-> i, axis |-> axis, second |-> second, top |-> top, size |-> size]
<1>1. Good(tab) /\ tab \in Tab /\ ProperTree(tab)
    BY UsableIs DEF AskSplit, Usable
<1>2. tab' = [t EXCEPT !.asked = asked]
    BY DEF AskSplit
<1>3. Alike(tab, t)
    BY <1>1, AlikeSelf, UnzoomedIs
<1>4. i \in Nat
    BY <1>1, PathOfIs, IndexNat DEF IndexOf
<1>. HIDE DEF t, i
<1>5. t \in Tab /\ Steps(tab, t) /\ t.dead = tab.dead
    BY <1>1, <1>3, AlikeStep DEF Alike
<1>6. size \in Size
    <2>1. SplitSize(t.size, axis, second) \in Split
        BY <1>5, TabFields, SplitSizeIs
    <2>2. SplitSize(t.size, axis, second).part[2] \in Size
        BY <2>1, SplitIs
    <2>3. t.asked.size \in Size
        BY <1>5, TabFields DEF Request
    <2>4. QED
        BY <2>2, <2>3
<1>. HIDE DEF size
<1>7. asked \in Request
    BY <1>4, <1>6 DEF Request
<1>. HIDE DEF asked
<1>8. /\ tab' \in Tab
      /\ tab'.leaf = t.leaf /\ tab'.split = t.split /\ tab'.pty = t.pty
      /\ tab'.zoomed = t.zoomed /\ tab'.active = t.active /\ tab'.dead = t.dead
    BY <1>2, <1>5, <1>7 DEF Tab
<1>9. QED
    BY <1>5, <1>8, StepThenSame DEF Kept

LEMMA FinishSplitStep ==
    ASSUME TabInv, NEW new \in Panes, FinishSplit(new)
    PROVE  Kept
<1>. DEFINE r == tab.asked
            u == SplitAndInserted(tab, r.index, r.axis, r.second, r.top, new, r.size)
<1>1. Good(tab) /\ tab \in Tab /\ new \notin PanesOf(tab)
    BY UsableIs DEF FinishSplit
<1>2. r \in Request
    BY <1>1, TabFields
<1>3. r.axis \in Axes /\ r.second \in BOOLEAN /\ r.size \in Size
    BY <1>2 DEF Request
<1>4. tab' = [u EXCEPT !.asked = NoRequest]
    BY DEF FinishSplit
<1>5. Good(u) /\ Steps(tab, u) /\ u.dead = tab.dead
    BY <1>1, <1>3, InsertedStep
<1>. HIDE DEF u
<1>6. /\ tab' \in Tab
      /\ tab'.leaf = u.leaf /\ tab'.split = u.split /\ tab'.pty = u.pty
      /\ tab'.zoomed = u.zoomed /\ tab'.active = u.active /\ tab'.dead = u.dead
    BY <1>4, <1>5, NoRequestIs DEF Tab, Good
<1>7. QED
    BY <1>5, <1>6, StepThenSame DEF Kept

LEMMA MovePaneStep ==
    ASSUME TabInv, NEW pane \in PanesOf(tab), NEW target \in PanesOf(tab), NEW axis \in Axes,
           NEW second \in BOOLEAN, MovePane(pane, target, axis, second)
    PROVE  Kept
<1>. DEFINE t == Unzoomed(tab)
<1>1. Good(tab)
    BY UsableIs DEF MovePane, Usable
<1>2. Alike(tab, t) /\ Good(t) /\ PanesOf(t) = PanesOf(tab) /\ t.dead = tab.dead
    BY <1>1, UnzoomedIs, AlikeStep
<1>3. tab' = Moved(t, Without(t, {pane}), pane, target, axis, second)
    BY DEF MovePane
<1>. HIDE DEF t
<1>4. Steps(t, tab') /\ tab'.dead \subseteq t.dead
    BY <1>2, <1>3, MovedStep
<1>5. QED
    BY <1>1, <1>2, <1>4, AlikeThenStep DEF Kept

LEMMA FocusStep ==
    ASSUME TabInv,
           \/ \E i \in 0..Cardinality(Panes) - 1 : ActivateIndex(i) \/ ActivateDirection(i)
           \/ \E pane \in PanesOf(tab) : ActivatePane(pane)
    PROVE  Kept
<1>1. Good(tab) /\ ProperTree(tab) /\ tab \in Tab
    BY UsableIs DEF ActivateIndex, ActivateDirection, ActivatePane, Usable
<1>2. ASSUME NEW i, ActivateIndex(i) PROVE Kept
    <2>1. HasIndex(tab, i) /\ tab' = [tab EXCEPT !.active = i]
        BY <1>2 DEF ActivateIndex
    <2>2. QED
        BY <1>1, <2>1, OtherActive DEF Kept
<1>3. ASSUME NEW i, ActivateDirection(i) PROVE Kept
    <2>. DEFINE t == Unzoomed(tab)
    <2>1. /\ Alike(tab, t) /\ Good(t) /\ t.dead = tab.dead /\ Steps(tab, t)
          /\ \A k : HasIndex(t, k) <=> HasIndex(tab, k)
        BY <1>1, UnzoomedIs, AlikeStep
    <2>2. HasIndex(tab, i) /\ tab' = IF t.fault # "none" THEN t ELSE [t EXCEPT !.active = i]
        BY <1>3 DEF ActivateDirection
    <2>. HIDE DEF t
    <2>3. CASE t.fault # "none"
        BY <2>1, <2>2, <2>3 DEF Kept
    <2>4. CASE t.fault = "none"
        <3>1. Steps(t, tab') /\ tab'.dead = t.dead
            BY <2>1, <2>2, <2>4, OtherActive
        <3>2. QED
            BY <1>1, <2>1, <3>1, AlikeThenStep DEF Kept
    <2>5. QED
        BY <2>3, <2>4
<1>4. ASSUME NEW pane \in PanesOf(tab), ActivatePane(pane) PROVE Kept
    <2>1. HasIndex(tab, IndexOf(tab, pane))
        BY <1>1, PathOfIs, LeafIndexIs DEF IndexOf, HasIndex
    <2>2. tab' = [tab EXCEPT !.active = IndexOf(tab, pane)]
        BY <1>4 DEF ActivatePane
    <2>3. QED
        BY <1>1, <2>1, <2>2, OtherActive DEF Kept
<1>5. QED
    BY <1>2, <1>3, <1>4

LEMMA ZoomStep ==
    ASSUME TabInv, ToggleZoom
    PROVE  Kept
<1>1. Good(tab)
    BY UsableIs DEF ToggleZoom, Usable
<1>2. CASE tab' = Unzoomed(tab)
    BY <1>1, <1>2, UnzoomedIs, AlikeStep DEF Kept
<1>3. CASE tab' = Zoomed(tab)
    <2>1. /\ Good(Zoomed(tab))
          /\ Zoomed(tab).leaf = tab.leaf
          /\ Zoomed(tab).active = tab.active
          /\ Zoomed(tab).dead = tab.dead
        BY <1>1, ZoomedIs
    <2>2. /\ PanesOf(tab') = PanesOf(tab) /\ LeafCount(tab') = LeafCount(tab)
          /\ tab'.active = tab.active
        BY <1>3, <2>1, SameLeaves
    <2>3. QED
        BY <1>3, <2>1, <2>2 DEF Kept, Steps, InRange, Settles
<1>4. QED
    BY <1>2, <1>3 DEF ToggleZoom

LEMMA SizeStep ==
    ASSUME TabInv,
           \/ \E size \in WindowSizes : ResizeTab(size)
           \/ \E p \in DOMAIN tab.split, delta \in Deltas : DragSplit(p, delta)
    PROVE  Kept
<1>1. Good(tab)
    BY UsableIs DEF ResizeTab, DragSplit, Usable
<1>2. ASSUME NEW size \in WindowSizes, ResizeTab(size) PROVE Kept
    <2>1. size \in Size /\ tab' = Resized(tab, size)
        BY <1>2, SplitTreeAssumption DEF ResizeTab, Size
    <2>2. QED
        BY <1>1, <2>1, ResizedIs, AlikeStep DEF Kept
<1>3. ASSUME NEW p \in DOMAIN tab.split, NEW delta \in Deltas, DragSplit(p, delta) PROVE Kept
    <2>1. delta \in Int /\ tab' = SplitMoved(tab, p, delta)
        BY <1>3, SplitTreeAssumption DEF DragSplit
    <2>2. QED
        BY <1>1, <2>1, SplitMovedIs, AlikeStep DEF Kept
<1>4. QED
    BY <1>2, <1>3

LEMMA RotateStep ==
    ASSUME TabInv, NEW clockwise \in BOOLEAN, RotatePanes(clockwise)
    PROVE  Kept
<1>. DEFINE n == LeafCount(tab)
            c == IF clockwise THEN n - 1 ELSE 1
<1>1. Good(tab) /\ n > 1 /\ n \in Nat
    BY UsableIs, LeafCountIs DEF RotatePanes, Usable, Good
<1>2. tab' = SizesApplied([tab EXCEPT !.leaf = [p \in DOMAIN tab.leaf |->
                                                 tab.leaf[LeafAt(tab, (LeafIndex(tab, p) + c) % n)]]])
    BY DEF RotatePanes
<1>3. c \in {1, n - 1}
    OBVIOUS
<1>. HIDE DEF c
<1>4. QED
    BY <1>1, <1>2, <1>3, RotatedStep DEF Kept

LEMMA SwapStep ==
    ASSUME TabInv, NEW i, NEW keep_focus \in BOOLEAN, SwapActive(i, keep_focus)
    PROVE  Kept
<1>. DEFINE a == LeafAt(tab, i)
            b == LeafAt(tab, tab.active)
            leaf == [tab.leaf EXCEPT ![a] = PaneAt(tab, tab.active),
                       ![b] = IF i = tab.active THEN PaneAt(tab, tab.active) ELSE PaneAt(tab, i)]
            v == SizesApplied([tab EXCEPT !.leaf = leaf])
            n == IF keep_focus THEN i ELSE v.active
<1>1. Good(tab) /\ HasIndex(tab, i) /\ HasIndex(tab, tab.active)
    BY UsableIs DEF SwapActive, Usable
<1>2. tab' = [v EXCEPT !.active = n]
    BY DEF SwapActive
<1>3. a \in DOMAIN tab.leaf /\ b \in DOMAIN tab.leaf /\ Exchanged(tab, a, b) = leaf
    BY <1>1, ExchangedIs
<1>4. n \in {i, v.active}
    OBVIOUS
<1>. HIDE DEF a, b, leaf, n
<1>5. v = Swapped(tab, a, b)
    BY <1>3 DEF Swapped
<1>. HIDE DEF v
<1>6. tab' = WithActive(v, n)
    BY <1>2 DEF WithActive
<1>7. Good(tab') /\ Steps(tab, tab') /\ tab'.dead = tab.dead
    BY <1>1, <1>3, <1>4, <1>5, <1>6, SwappedStep
<1>8. QED
    BY <1>7 DEF Kept

LEMMA RemoveStep ==
    ASSUME TabInv, NEW pane \in PanesOf(tab), RemovePane(pane)
    PROVE  Kept
<1>1. Good(tab) /\ tab' = Without(tab, {pane})
    BY UsableIs DEF RemovePane, Usable
<1>2. AtMostOne(tab, {pane})
    BY DEF AtMostOne
<1>3. QED
    BY <1>1, <1>2, WithoutStep DEF Kept

\* A pane dies: the tree is not told, and at most Deaths panes are dead at once.
LEMMA DieStep ==
    ASSUME TabInv, NEW pane \in Panes, Die(pane)
    PROVE  TabInv' /\ Steps(tab, tab')
<1>1. tab \in Tab /\ tab.dead \subseteq Panes
    BY TabFields DEF TabInv, Good, Gone
<1>2. pane \notin tab.dead /\ Cardinality(tab.dead) < Deaths /\ tab' = [tab EXCEPT !.dead = @ \cup {pane}]
    BY DEF Die
<1>3. /\ tab' \in Tab
      /\ tab'.leaf = tab.leaf /\ tab'.split = tab.split /\ tab'.pty = tab.pty
      /\ tab'.zoomed = tab.zoomed /\ tab'.active = tab.active /\ tab'.dead = tab.dead \cup {pane}
    BY <1>1, <1>2 DEF Tab
<1>4. Steps(tab, tab')
    BY <1>3, SameStep DEF TabInv
<1>5. IsFiniteSet(tab.dead \cup {pane}) /\ Cardinality(tab.dead \cup {pane}) = Cardinality(tab.dead) + 1
    BY <1>2, FS_AddElement DEF TabInv
<1>6. Cardinality(tab.dead) \in Nat
    BY FS_CardinalityType DEF TabInv
<1>7. IsFiniteSet(tab'.dead) /\ Cardinality(tab'.dead) <= Deaths
    BY <1>2, <1>3, <1>5, <1>6, SplitTreeAssumption
<1>8. QED
    BY <1>4, <1>7 DEF TabInv, Steps

\* prune_dead_panes.  Nothing is said of the active pane when it removes several.
LEMMA PruneStep ==
    ASSUME TabInv, PruneDeadPanes
    PROVE  /\ Good(tab') \/ Gone(tab')
           /\ tab'.dead \subseteq tab.dead
           /\ Deaths <= 1 => Kept
<1>1. Good(tab) /\ tab' = Without(tab, tab.dead)
    BY UsableIs DEF PruneDeadPanes, Usable
<1>2. (Good(tab') \/ Gone(tab')) /\ tab'.dead \subseteq tab.dead
    BY <1>1, WithoutIs
<1>3. ASSUME Deaths <= 1 PROVE Kept
    <2>1. Cardinality(tab.dead) \in Nat /\ Cardinality(tab.dead) <= 1
        BY <1>3, FS_CardinalityType, SplitTreeAssumption DEF TabInv
    <2>2. CASE Cardinality(tab.dead) = 0
        <3>1. tab.dead = {}
            BY <2>2, FS_EmptySet DEF TabInv
        <3>2. QED
            BY <3>1 DEF PruneDeadPanes
    <2>3. CASE Cardinality(tab.dead) = 1
        <3>1. \E x : tab.dead = {x}
            BY <2>3, FS_Singleton DEF TabInv
        <3>2. AtMostOne(tab, tab.dead)
            BY <3>1 DEF AtMostOne
        <3>3. QED
            BY <1>1, <3>2, WithoutStep DEF Kept
    <2>4. QED
        BY <2>1, <2>2, <2>3
<1>4. QED
    BY <1>2, <1>3

LEMMA KeptInv ==
    ASSUME TabInv, Good(tab') \/ Gone(tab'), tab'.dead \subseteq tab.dead
    PROVE  TabInv'
<1>1. IsFiniteSet(tab'.dead) /\ Cardinality(tab'.dead) <= Cardinality(tab.dead)
    BY FS_Subset DEF TabInv
<1>2. Cardinality(tab'.dead) \in Nat /\ Cardinality(tab.dead) \in Nat
    BY <1>1, FS_CardinalityType DEF TabInv
<1>3. QED
    BY <1>1, <1>2, SplitTreeAssumption DEF TabInv

\* One step of the tab, whatever it is.
LEMMA NextStep ==
    ASSUME TabInv, [Next]_vars
    PROVE  TabInv' /\ (Deaths <= 1 => Steps(tab, tab'))
<1>1. CASE Kept
    BY <1>1, KeptInv DEF Kept, Steps
<1>2. CASE UNCHANGED vars
    <2>1. tab' = tab
        BY <1>2 DEF vars
    <2>2. tab \in Tab /\ Steps(tab, tab)
        BY SameStep DEF TabInv, Good, Gone
    <2>3. QED
        BY <1>1, <2>1, <2>2 DEF Kept
<1>3. ASSUME NEW pane \in PanesOf(tab), NEW axis \in Axes, NEW second \in BOOLEAN, NEW top \in BOOLEAN,
             AskSplit(pane, axis, second, top)
      PROVE  Kept
    BY <1>3, AskSplitStep
<1>4. ASSUME NEW new \in Panes, FinishSplit(new) PROVE Kept
    BY <1>4, FinishSplitStep
<1>5. ASSUME NEW pane \in PanesOf(tab), NEW target \in PanesOf(tab), NEW axis \in Axes, NEW second \in BOOLEAN,
             MovePane(pane, target, axis, second)
      PROVE  Kept
    BY <1>5, MovePaneStep
<1>6. ASSUME \/ \E i \in 0..Cardinality(Panes) - 1 : ActivateIndex(i) \/ ActivateDirection(i)
             \/ \E pane \in PanesOf(tab) : ActivatePane(pane)
      PROVE  Kept
    BY <1>6, FocusStep
<1>7. ASSUME ToggleZoom PROVE Kept
    BY <1>7, ZoomStep
<1>8. ASSUME \/ \E size \in WindowSizes : ResizeTab(size)
             \/ \E p \in DOMAIN tab.split, delta \in Deltas : DragSplit(p, delta)
      PROVE  Kept
    BY <1>8, SizeStep
<1>9. ASSUME NEW clockwise \in BOOLEAN, RotatePanes(clockwise) PROVE Kept
    BY <1>9, RotateStep
<1>10. ASSUME NEW i, NEW keep_focus \in BOOLEAN, SwapActive(i, keep_focus) PROVE Kept
    BY <1>10, SwapStep
<1>11. ASSUME NEW pane \in PanesOf(tab), RemovePane(pane) PROVE Kept
    BY <1>11, RemoveStep
<1>12. ASSUME NEW pane \in Panes, Die(pane) PROVE TabInv' /\ Steps(tab, tab')
    BY <1>12, DieStep
<1>13. ASSUME PruneDeadPanes PROVE TabInv' /\ (Deaths <= 1 => Steps(tab, tab'))
    BY <1>13, PruneStep, KeptInv DEF Kept
<1>14. CASE Step
    BY <1>1, <1>3, <1>4, <1>5, <1>6, <1>7, <1>8, <1>9, <1>10, <1>11, <1>12, <1>13, <1>14, Zenon DEF Step
<1>15. QED
    BY <1>2, <1>14 DEF Next

-------------------------------------------------------------------------------
\* What the invariant says of a tab.

LEMMA TypeIs ==
    ASSUME TabInv
    PROVE  SplitTypeOK
<1>1. CASE Good(tab)
    <2>. DEFINE L == DOMAIN tab.leaf
                K == DOMAIN tab.split
    <2>1. Proper(L, K) /\ tab \in Tab /\ DOMAIN tab.pty = PanesOf(tab)
        BY <1>1 DEF Good, ProperTree
    <2>2. Cardinality(PanesOf(tab)) = LeafCount(tab)
        <3>. DEFINE f == [p \in L |-> tab.leaf[p]]
        <3>1. f \in [L -> PanesOf(tab)]
            BY DEF PanesOf
        <3>2. \A x, y \in L : f[x] = f[y] => x = y
            BY <1>1 DEF Good
        <3>3. \A y \in PanesOf(tab) : \E x \in L : f[x] = y
            BY DEF PanesOf
        <3>4. IsFiniteSet(L)
            BY <2>1 DEF Proper
        <3>. HIDE DEF f
        <3>5. QED
            BY <3>1, <3>2, <3>3, <3>4, SameSize DEF LeafCount
    <2>3. \A p \in K, s \in {1, 2}, axis \in Axes : tab.split[p].part[s][axis] \in Nat
        <3>1. \A p \in K : tab.split[p] \in Split
            BY <2>1, TabFields
        <3>2. QED
            BY <3>1, SplitIs
    <2>4. QED
        BY <2>1, <2>2, <2>3 DEF SplitTypeOK, Proper
<1>2. CASE Gone(tab)
    <2>1. PanesOf(tab) = {} /\ LeafCount(tab) = 0 /\ Cardinality(PanesOf(tab)) = 0
        BY <1>2, FS_EmptySet DEF Gone, PanesOf, LeafCount
    <2>2. QED
        BY <1>2, <2>1 DEF SplitTypeOK, Gone
<1>3. QED
    BY <1>1, <1>2 DEF TabInv

LEMMA ZoomedIsHeld ==
    ASSUME TabInv
    PROVE  ZoomedHeld
    BY DEF TabInv, Good, Gone, ZoomedHeld

LEMMA ActiveIs ==
    ASSUME TabInv, InRange(tab)
    PROVE  ActiveInRange
<1>1. CASE Good(tab)
    <2>1. LeafCount(tab) \in Nat /\ (DOMAIN tab.leaf # {} => LeafCount(tab) > 0) /\ tab.active \in Nat
        BY <1>1, LeafCountIs, TabFields DEF Good
    <2>2. QED
        BY <2>1 DEF InRange, ActiveInRange, HasIndex
<1>2. CASE Gone(tab)
    BY <1>2 DEF Gone, ActiveInRange
<1>3. QED
    BY <1>1, <1>2 DEF TabInv

-------------------------------------------------------------------------------
\* The theorems.

\* Whatever is split, closed, moved, rotated, swapped, zoomed and resized, and
\* however many panes die before the tab is pruned, the tree stays a proper
\* binary tree, no pane is at two of its leaves, exactly its panes have a
\* size, and no size is negative (the zipper of bintree and Tab's use of it).
THEOREM TreeStaysProper == Spec => []SplitTypeOK
<1>1. Init => TabInv
    BY InitTab
<1>2. TabInv /\ [Next]_vars => TabInv'
    BY NextStep
<1>3. TabInv => SplitTypeOK
    BY TypeIs
<1>4. QED
    BY <1>1, <1>2, <1>3, PTL DEF Spec

\* A tab never stays zoomed on a pane that was closed or moved away, for any
\* number of panes and deaths (the unzooming of remove_pane_if).
THEOREM ZoomedPaneHeld == Spec => []ZoomedHeld
<1>1. Init => TabInv
    BY InitTab
<1>2. TabInv /\ [Next]_vars => TabInv'
    BY NextStep
<1>3. TabInv => ZoomedHeld
    BY ZoomedIsHeld
<1>4. QED
    BY <1>1, <1>2, <1>3, PTL DEF Spec

\* When the tab is pruned before a second pane of it dies, the active index is
\* always that of a pane: keys have somewhere to go (remove_pane_if shifts the
\* index, split_and_insert and the others keep or set it).
THEOREM ActiveStaysInRange ==
    ASSUME Deaths <= 1
    PROVE  Spec => []ActiveInRange
<1>1. Init => TabInv /\ InRange(tab)
    BY InitTab
<1>2. TabInv /\ InRange(tab) /\ [Next]_vars => (TabInv /\ InRange(tab))'
    BY NextStep DEF Steps
<1>3. TabInv /\ InRange(tab) => ActiveInRange
    BY ActiveIs
<1>4. QED
    BY <1>1, <1>2, <1>3, PTL DEF Spec

\* Under the same premise, a pane that leaves the tab takes the focus only from
\* itself: the active pane stays active when others go (the shift of the active
\* index in remove_pane_if).
THEOREM FocusKept ==
    ASSUME Deaths <= 1
    PROVE  Spec => ActivePaneKept
<1>1. Init => TabInv
    BY InitTab
<1>2. TabInv /\ [Next]_vars => TabInv'
    BY NextStep
<1>3. TabInv /\ [Next]_vars =>
         [/\ PanesOf(tab') \subseteq PanesOf(tab)
          /\ PanesOf(tab') # PanesOf(tab)
          /\ ActivePane(tab) \in PanesOf(tab')
          => ActivePane(tab') = ActivePane(tab)]_vars
    BY NextStep DEF Steps, Settles, Keeps
<1>4. QED
    BY <1>1, <1>2, <1>3, PTL DEF Spec, ActivePaneKept
=============================================================================
