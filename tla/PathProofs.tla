------------------------------ MODULE PathProofs ------------------------------
(*****************************************************************************)
(* Facts about the paths of dentries: what Below orders, and what Moved does *)
(* to a path when d_move takes a directory, with all below it, to another    *)
(* place.                                                                    *)
(*****************************************************************************)
EXTENDS Client, SequenceTheorems, TLAPS

-------------------------------------------------------------------------------
(* Below *)

(* A path is below itself, and below what it is below of is below. *)
LEMMA BelowOrder ==
    ASSUME NEW S, NEW a \in Seq(S), NEW b \in Seq(S), NEW c \in Seq(S)
    PROVE  /\ Below(a, a)
           /\ Below(a, b) /\ Below(b, c) => Below(a, c)
BY DEF Below

(* Two directories on the way to the same dentry are on one way. *)
LEMMA BelowBoth ==
    ASSUME NEW S, NEW a \in Seq(S), NEW b \in Seq(S), NEW c \in Seq(S),
           Below(a, c), Below(b, c)
    PROVE  Below(a, b) \/ Below(b, a)
BY DEF Below

(* Paths of one length, one below the other, are equal. *)
LEMMA BelowSameLen ==
    ASSUME NEW S, NEW a \in Seq(S), NEW b \in Seq(S), Below(a, b), Len(a) = Len(b)
    PROVE  a = b
BY SeqEqual DEF Below

(* The way to a name in directory s is the way to s, and the name. *)
LEMMA BelowAppend ==
    ASSUME NEW S, NEW s \in Seq(S), NEW n \in S, NEW d \in Seq(S)
    PROVE  Below(d, Append(s, n)) <=> d = Append(s, n) \/ Below(d, s)
<1>. DEFINE t == Append(s, n)
<1>1. /\ t \in Seq(S) /\ Len(t) = Len(s) + 1
      /\ \A k \in 1..Len(s) : t[k] = s[k]
    BY AppendProperties
<1>. HIDE DEF t
<1>2. ASSUME Below(d, t), d # t PROVE Below(d, s)
  <2>1. Len(d) # Len(t)
      BY <1>1, <1>2, BelowSameLen
  <2>. QED  BY <1>1, <1>2, <2>1 DEF Below
<1>3. Below(d, s) => Below(d, t)
    BY <1>1 DEF Below
<1>4. Below(t, t)
    BY <1>1, BelowOrder
<1>. QED  BY <1>2, <1>3, <1>4 DEF t

-------------------------------------------------------------------------------
(* Moved *)

(* Path m is d with the names of from, which it begins with, replaced by to. *)
Shifted(m, d, from, to) ==
    /\ Len(m) = Len(to) + (Len(d) - Len(from))
    /\ \A k \in 1..Len(to) : m[k] = to[k]
    /\ \A k \in 1..(Len(d) - Len(from)) : m[k + Len(to)] = d[k + Len(from)]

(* The length and the names of a path that is moved. *)
LEMMA MovedAt ==
    ASSUME NEW S, NEW d \in Seq(S), NEW from \in Seq(S), NEW to \in Seq(S),
           Below(from, d)
    PROVE  /\ Moved(d, from, to) \in Seq(S)
           /\ Shifted(Moved(d, from, to), d, from, to)
<1>. DEFINE rest == SubSeq(d, Len(from) + 1, Len(d))
<1>1. Len(from) \in Nat /\ Len(d) \in Nat /\ Len(to) \in Nat /\ Len(from) <= Len(d)
    BY DEF Below
<1>2. /\ rest \in Seq(S) /\ Len(rest) = Len(d) - Len(from)
      /\ \A k \in 1..(Len(d) - Len(from)) : rest[k] = d[k + Len(from)]
    BY <1>1
<1>3. Moved(d, from, to) = to \o rest
    BY DEF Moved
<1>. HIDE DEF rest
<1>4. to \o rest \in Seq(S) /\ Len(to \o rest) = Len(to) + Len(rest)
    BY <1>1, <1>2, ConcatProperties
<1>5. ASSUME NEW k \in 1..Len(to) PROVE (to \o rest)[k] = to[k]
    BY <1>1, <1>2, ConcatProperties
<1>6. ASSUME NEW k \in 1..Len(rest) PROVE (to \o rest)[k + Len(to)] = rest[k]
    BY <1>1, <1>2, ConcatProperties
<1>. QED  BY <1>2, <1>3, <1>4, <1>5, <1>6 DEF Shifted

(* What is not below the directory that is moved stays. *)
LEMMA MovedStays ==
    ASSUME NEW d, NEW from, NEW to, ~Below(from, d)
    PROVE  Moved(d, from, to) = d
BY DEF Moved

(* What is moved is below the new place, and stays a path. *)
LEMMA MovedBelow ==
    ASSUME NEW S, NEW d \in Seq(S), NEW from \in Seq(S), NEW to \in Seq(S)
    PROVE  /\ Moved(d, from, to) \in Seq(S)
           /\ Below(from, d) => Below(to, Moved(d, from, to))
<1>1. CASE Below(from, d)
  <2>1. Moved(d, from, to) \in Seq(S) /\ Shifted(Moved(d, from, to), d, from, to)
      BY <1>1, MovedAt
  <2>2. Len(from) <= Len(d)
      BY <1>1 DEF Below
  <2>. QED  BY <2>1, <2>2 DEF Below, Shifted
<1>2. CASE ~Below(from, d)
    BY <1>2, MovedStays
<1>. QED  BY <1>1, <1>2

(* The names of a moved path, and those of a path, make them equal. *)
LEMMA ShiftedEqual ==
    ASSUME NEW S, NEW d \in Seq(S), NEW from \in Seq(S), NEW to \in Seq(S),
           Len(from) <= Len(d),
           NEW x \in Seq(S), NEW y \in Seq(S),
           Shifted(x, d, from, to), Shifted(y, d, from, to)
    PROVE  x = y
<1>1. Len(from) \in Nat /\ Len(d) \in Nat /\ Len(to) \in Nat
    OBVIOUS
<1>2. Len(x) = Len(y) /\ Len(x) = Len(to) + (Len(d) - Len(from))
    BY DEF Shifted
<1>3. ASSUME NEW k \in 1..Len(x) PROVE x[k] = y[k]
  <2>1. CASE k \in 1..Len(to)
      BY <2>1 DEF Shifted
  <2>2. CASE k > Len(to)
    <3>1. k - Len(to) \in 1..(Len(d) - Len(from)) /\ (k - Len(to)) + Len(to) = k
        BY <1>1, <1>2, <2>2
    <3>2. /\ x[(k - Len(to)) + Len(to)] = d[(k - Len(to)) + Len(from)]
          /\ y[(k - Len(to)) + Len(to)] = d[(k - Len(to)) + Len(from)]
        BY <3>1 DEF Shifted
    <3>. QED  BY <3>1, <3>2
  <2>. QED  BY <1>1, <2>1, <2>2
<1>. QED  BY <1>2, <1>3, SeqEqual

(* Moving back is the inverse, if nothing was at the new place before. *)
LEMMA MovedBack ==
    ASSUME NEW S, NEW d \in Seq(S), NEW from \in Seq(S), NEW to \in Seq(S),
           ~Below(to, d)
    PROVE  Moved(Moved(d, from, to), to, from) = d
<1>1. CASE Below(from, d)
  <2>. DEFINE m == Moved(d, from, to)
  <2>1. m \in Seq(S) /\ Below(to, m) /\ Shifted(m, d, from, to)
      BY <1>1, MovedAt, MovedBelow
  <2>. HIDE DEF m
  <2>2. Moved(m, to, from) \in Seq(S) /\ Shifted(Moved(m, to, from), m, to, from)
      BY <2>1, MovedAt
  <2>3. Len(to) <= Len(m)
      BY <2>1 DEF Below
  <2>4. Shifted(d, m, to, from)
    <3>1. /\ Len(m) = Len(to) + (Len(d) - Len(from))
          /\ \A k \in 1..(Len(d) - Len(from)) : m[k + Len(to)] = d[k + Len(from)]
        BY <2>1 DEF Shifted
    <3>2. Len(d) = Len(from) + (Len(m) - Len(to)) /\ Len(m) - Len(to) = Len(d) - Len(from)
        BY <2>1, <3>1
    <3>3. \A k \in 1..Len(from) : d[k] = from[k]
        BY <1>1 DEF Below
    <3>. QED  BY <3>1, <3>2, <3>3 DEF Shifted
  <2>5. Moved(m, to, from) = d
      BY <2>1, <2>2, <2>3, <2>4, ShiftedEqual
  <2>. QED  BY <2>5 DEF m
<1>2. CASE ~Below(from, d)
    BY <1>2, MovedStays
<1>. QED  BY <1>1, <1>2

(* The directory itself is moved to the new place. *)
LEMMA MovedItself ==
    ASSUME NEW S, NEW from \in Seq(S), NEW to \in Seq(S)
    PROVE  Moved(from, from, to) = to
<1>1. Below(from, from)
    BY BelowOrder
<1>2. SubSeq(from, Len(from) + 1, Len(from)) = <<>>
    BY SubSeqEmpty
<1>. QED  BY <1>1, <1>2, ConcatEmptySeq DEF Moved

(* A name looked up in a directory that is moved, moves with it. *)
LEMMA MovedAppend ==
    ASSUME NEW S, NEW d \in Seq(S), NEW n \in S, NEW from \in Seq(S), NEW to \in Seq(S),
           Below(from, d)
    PROVE  Moved(Append(d, n), from, to) = Append(Moved(d, from, to), n)
<1>. DEFINE e == Append(d, n)
            m == Moved(d, from, to)
            y == Append(m, n)
<1>1. /\ e \in Seq(S) /\ Len(e) = Len(d) + 1 /\ e[Len(d) + 1] = n
      /\ \A k \in 1..Len(d) : e[k] = d[k]
    BY AppendProperties
<1>2. Below(from, e) /\ Len(from) <= Len(e) /\ Len(from) <= Len(d)
    BY <1>1 DEF Below
<1>3. m \in Seq(S) /\ Shifted(m, d, from, to)
    BY MovedAt
<1>. HIDE DEF e, m
<1>4. Moved(e, from, to) \in Seq(S) /\ Shifted(Moved(e, from, to), e, from, to)
    BY <1>1, <1>2, MovedAt
<1>5. /\ y \in Seq(S) /\ Len(y) = Len(m) + 1 /\ y[Len(m) + 1] = n
      /\ \A k \in 1..Len(m) : y[k] = m[k]
    BY <1>3, AppendProperties
<1>. HIDE DEF y
<1>6. Shifted(y, e, from, to)
  <2>1. /\ Len(from) \in Nat /\ Len(d) \in Nat /\ Len(to) \in Nat
        /\ Len(m) = Len(to) + (Len(d) - Len(from))
      BY <1>3 DEF Shifted
  <2>2. Len(y) = Len(to) + (Len(e) - Len(from))
      BY <1>1, <1>2, <1>5, <2>1
  <2>3. \A k \in 1..Len(to) : y[k] = to[k]
      BY <1>2, <1>3, <1>5, <2>1 DEF Shifted
  <2>4. ASSUME NEW k \in 1..(Len(e) - Len(from)) PROVE y[k + Len(to)] = e[k + Len(from)]
    <3>1. CASE k <= Len(d) - Len(from)
      <4>1. /\ k \in 1..(Len(d) - Len(from)) /\ k + Len(from) \in 1..Len(d)
            /\ k + Len(to) \in 1..Len(m)
          BY <1>1, <1>2, <2>1, <3>1
      <4>2. m[k + Len(to)] = d[k + Len(from)]
          BY <1>3, <4>1 DEF Shifted
      <4>. QED  BY <1>1, <1>5, <4>1, <4>2
    <3>2. CASE k > Len(d) - Len(from)
      <4>1. k + Len(from) = Len(d) + 1 /\ k + Len(to) = Len(m) + 1
          BY <1>1, <1>2, <2>1, <3>2
      <4>. QED  BY <1>1, <1>5, <4>1
    <3>. QED  BY <2>1, <3>1, <3>2
  <2>. QED  BY <2>2, <2>3, <2>4 DEF Shifted
<1>7. Moved(e, from, to) = y
    BY <1>1, <1>2, <1>4, <1>5, <1>6, ShiftedEqual
<1>. QED  BY <1>7 DEF y, e, m

(* The way to a dentry that was moved leads to the new place, and from there *)
(* through what was moved with it.                                           *)
LEMMA MovedWay ==
    ASSUME NEW S, NEW d \in Seq(S), NEW from \in Seq(S), NEW to \in Seq(S),
           NEW x \in Seq(S), Below(from, d), Below(x, Moved(d, from, to))
    PROVE  \/ Below(x, to)
           \/ \E y \in Seq(S) : Below(from, y) /\ Below(y, d) /\ Moved(y, from, to) = x
<1>. DEFINE m == Moved(d, from, to)
<1>1. m \in Seq(S) /\ Shifted(m, d, from, to) /\ Below(to, m) /\ Below(x, m)
    BY MovedAt, MovedBelow
<1>. HIDE DEF m
<1>2. Below(x, to) \/ Below(to, x)
    BY <1>1, BelowBoth
<1>3. ASSUME Below(to, x)
      PROVE  \E y \in Seq(S) : Below(from, y) /\ Below(y, d) /\ Moved(y, from, to) = x
  <2>. DEFINE l == Len(from) + (Len(x) - Len(to))
              y == SubSeq(d, 1, l)
  <2>1. /\ Len(from) \in Nat /\ Len(d) \in Nat /\ Len(to) \in Nat /\ Len(x) \in Nat
        /\ Len(from) <= Len(d) /\ Len(to) <= Len(x) /\ Len(x) <= Len(m)
        /\ Len(m) = Len(to) + (Len(d) - Len(from))
      BY <1>1, <1>3 DEF Below, Shifted
  <2>2. l \in Nat /\ Len(from) <= l /\ l <= Len(d)
      BY <2>1
  <2>3. l - Len(from) = Len(x) - Len(to) /\ Len(x) = Len(to) + (l - Len(from))
      BY <2>1
  <2>. HIDE DEF l
  <2>4. y \in Seq(S) /\ Len(y) = l /\ \A k \in 1..l : y[k] = d[k]
      BY <2>1, <2>2
  <2>. HIDE DEF y
  <2>5. Below(from, y) /\ Below(y, d)
    <3>1. \A k \in 1..Len(from) : d[k] = from[k]
        BY DEF Below
    <3>2. Below(from, y)
      <4>1. ASSUME NEW k \in 1..Len(from) PROVE y[k] = from[k]
        <5>1. k \in 1..l
            BY <2>1, <2>2
        <5>. QED  BY <2>4, <3>1, <5>1
      <4>. QED  BY <2>2, <2>4, <4>1 DEF Below
    <3>3. Below(y, d)
        BY <2>2, <2>4 DEF Below
    <3>. QED  BY <3>2, <3>3
  <2>6. Moved(y, from, to) \in Seq(S) /\ Shifted(Moved(y, from, to), y, from, to)
      BY <2>4, <2>5, MovedAt
  <2>7. Shifted(x, y, from, to)
    <3>1. \A k \in 1..Len(to) : x[k] = to[k]
        BY <1>3 DEF Below
    <3>2. ASSUME NEW k \in 1..(l - Len(from)) PROVE x[k + Len(to)] = y[k + Len(from)]
      <4>1. /\ k \in 1..(Len(d) - Len(from)) /\ k + Len(to) \in 1..Len(x)
            /\ k + Len(from) \in 1..l
          BY <2>1, <2>2, <2>3
      <4>2. m[k + Len(to)] = d[k + Len(from)] /\ m[k + Len(to)] = x[k + Len(to)]
          BY <1>1, <4>1 DEF Shifted, Below
      <4>. QED  BY <2>4, <4>1, <4>2
    <3>. QED  BY <2>3, <2>4, <3>1, <3>2 DEF Shifted
  <2>8. Moved(y, from, to) = x
      BY <2>2, <2>4, <2>6, <2>7, ShiftedEqual
  <2>. QED  BY <2>4, <2>5, <2>8
<1>. QED  BY <1>2, <1>3
===============================================================================
