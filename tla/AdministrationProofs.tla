------------------------ MODULE AdministrationProofs ------------------------
(***************************************************************************)
(* What holds of the administrator's requests for any number of them under *)
(* way at a time, of items, widgets, pages, documents, renewals and        *)
(* connections: playlists first, then layouts, the document of a pdf       *)
(* widget, the token of a source, and the four together.                   *)
(***************************************************************************)
EXTENDS Administration, OrderFacts

-----------------------------------------------------------------------------
(* Playlists: helpers of the model.                                        *)

\* The index of an element that is looked for.
LEMMA SelectIndex ==
  ASSUME NEW s, Len(s) \in Nat, NEW x
  PROVE  /\ IndexIn(s, x) \in 0 .. Len(s)
         /\ IndexIn(s, x) # 0 => s[IndexIn(s, x)] = x
         /\ \A k \in 1 .. Len(s) : s[k] = x => IndexIn(s, x) # 0
<1> DEFINE I == {k \in 1 .. Len(s) : s[k] = x}
<1>1. IndexIn(s, x) = IF I # {} THEN Min(I) ELSE 0
  BY DEF IndexIn, SelectInSeq
<1>2. I # {} => Min(I) \in I
  <2> HAVE I # {}
  <2>1. I \in SUBSET Nat
    OBVIOUS
  <2>2. PICK m \in I : \A k \in I : m <= k
    <3> HIDE DEF I
    <3> QED BY <2>1, LeastNatural
  <2> HIDE DEF I
  <2> QED BY <2>2 DEF Min
<1>3. CASE I = {}
  BY <1>1, <1>3
<1>4. CASE I # {}
  <2>1. IndexIn(s, x) \in I
    BY <1>1, <1>2, <1>4
  <2> QED BY <2>1
<1> QED BY <1>3, <1>4

\* Positions as they are after n items have been numbered.
Placed(pos, n) == DOMAIN pos \subseteq 1 .. n /\ pos \in [DOMAIN pos -> 0 .. n - 1]

LEMMA PositionsOrder ==
  ASSUME NEW n \in Nat, NEW pos, Placed(pos, n)
  PROVE  /\ IsFiniteSet(DOMAIN pos) /\ Cardinality(DOMAIN pos) \in Nat
         /\ \A a, b \in DOMAIN pos : <<a, b>> \in ByPosition(pos) <=>
              pos[a] < pos[b] \/ (pos[a] = pos[b] /\ a < b)
         /\ OrderOn(ByPosition(pos), DOMAIN pos)
         /\ Enumerates(InOrder(pos), Cardinality(DOMAIN pos), DOMAIN pos, ByPosition(pos))
<1>1. IsFiniteSet(DOMAIN pos)
  <2>1. IsFiniteSet(1 .. n)
    BY FS_Interval
  <2> QED BY <2>1, FS_Subset DEF Placed
<1>2. \A a, b \in DOMAIN pos : <<a, b>> \in ByPosition(pos) <=>
              pos[a] < pos[b] \/ (pos[a] = pos[b] /\ a < b)
  BY DEF ByPosition
<1>3. OrderOn(ByPosition(pos), DOMAIN pos)
  <2>1. \A a \in DOMAIN pos : a \in Int /\ pos[a] \in Int
    BY DEF Placed
  <2> QED BY <1>2, <2>1 DEF OrderOn
<1> QED BY <1>1, <1>2, <1>3, FS_CardinalityType, SortedEnumerates DEF InOrder

\* The greatest position.
LEMMA MaxPositionBounds ==
  ASSUME NEW n \in Nat, NEW pos, Placed(pos, n)
  PROVE  /\ MaxPosition(pos) \in -1 .. n - 1
         /\ \A a \in DOMAIN pos : pos[a] <= MaxPosition(pos)
<1>1. CASE pos = << >>
  BY <1>1 DEF MaxPosition
<1>2. CASE pos # << >>
  <2>1. DOMAIN pos # {}
    <3> SUFFICES ASSUME DOMAIN pos = {} PROVE FALSE
      OBVIOUS
    <3>1. pos = [i \in {} |-> 0] /\ << >> = [i \in {} |-> 0]
      BY DEF Placed
    <3> QED BY <3>1, <1>2
  <2>2. Range(pos) \in SUBSET (0 .. n - 1) /\ Range(pos) # {}
    BY <2>1 DEF Placed, Range
  <2>3. n - 1 \in Nat
    BY <2>2
  <2>4. PICK m \in Range(pos) : \A k \in Range(pos) : k <= m
    <3>1. Range(pos) \in SUBSET Nat /\ \A k \in Range(pos) : k <= n - 1
      BY <2>2
    <3> QED BY <2>2, <2>3, <3>1, GreatestNatural
  <2>5. Max(Range(pos)) \in Range(pos) /\ \A k \in Range(pos) : k <= Max(Range(pos))
    <3>1. \A k \in Range(pos) : m >= k
      BY <2>2, <2>4
    <3>2. Max(Range(pos)) \in Range(pos) /\ \A k \in Range(pos) : Max(Range(pos)) >= k
      BY <3>1 DEF Max
    <3> QED BY <3>2, <2>2
  <2>6. MaxPosition(pos) = Max(Range(pos))
    BY <1>2 DEF MaxPosition
  <2>7. \A a \in DOMAIN pos : pos[a] \in Range(pos)
    BY DEF Range
  <2> QED BY <2>2, <2>5, <2>6, <2>7
<1> QED BY <1>1, <1>2

\* handlePlaylistAddItem: what lies behind all others comes last.
LEMMA AddedComesLast ==
  ASSUME NEW n \in Nat, NEW pos, Placed(pos, n),
         NEW m \in -1 .. n - 1, NEW new,
         new = [i \in DOMAIN pos \cup {n + 1} |-> IF i = n + 1 THEN m + 1 ELSE pos[i]]
  PROVE  /\ Placed(new, n + 1)
         /\ m = MaxPosition(pos) =>
              /\ InOrder(new) = Append(InOrder(pos), n + 1)
              /\ Tied(new) => Tied(pos)
<1>1. Placed(new, n + 1)
  <2>1. DOMAIN new = DOMAIN pos \cup {n + 1}
    OBVIOUS
  <2>2. DOMAIN new \subseteq 1 .. n + 1
    BY <2>1 DEF Placed
  <2>3. \A i \in DOMAIN new : new[i] \in 0 .. n + 1 - 1
    <3> TAKE i \in DOMAIN new
    <3>1. CASE i = n + 1
      BY <3>1
    <3>2. CASE i # n + 1
      <4>1. i \in DOMAIN pos /\ new[i] = pos[i] /\ pos[i] \in 0 .. n - 1
        BY <3>2, <2>1 DEF Placed
      <4> QED BY <4>1
    <3> QED BY <3>1, <3>2
  <2> QED BY <2>1, <2>2, <2>3 DEF Placed
<1>2. ASSUME m = MaxPosition(pos)
      PROVE  InOrder(new) = Append(InOrder(pos), n + 1) /\ (Tied(new) => Tied(pos))
  <2> DEFINE D == DOMAIN pos  N == Cardinality(D)  s == InOrder(pos)  t == Append(s, n + 1)
  <2>1. N \in Nat /\ Enumerates(s, N, D, ByPosition(pos))
    BY PositionsOrder
  <2>2. /\ D \subseteq 1 .. n /\ DOMAIN new = D \cup {n + 1} /\ n + 1 \notin D
        /\ \A a \in D : new[a] = pos[a] /\ pos[a] \in Int /\ pos[a] < new[n + 1]
    <3>1. D \subseteq 1 .. n /\ DOMAIN new = D \cup {n + 1} /\ n + 1 \notin D
      BY DEF Placed
    <3>2. ASSUME NEW a \in D PROVE new[a] = pos[a] /\ pos[a] \in Int /\ pos[a] < new[n + 1]
      <4>1. new[a] = pos[a] /\ pos[a] \in Int /\ new[n + 1] = m + 1
        BY <3>1 DEF Placed
      <4>2. pos[a] <= m
        BY <1>2, MaxPositionBounds
      <4> QED BY <4>1, <4>2
    <3> QED BY <3>1, <3>2
  <2>3. /\ s \in [1 .. N -> D] /\ s \in Seq(D) /\ Len(s) = N
        /\ \A x \in D : \E i \in 1 .. N : s[i] = x
        /\ \A i, j \in 1 .. N : i < j => <<s[i], s[j]>> \in ByPosition(pos)
    <3> HIDE DEF D, N, s
    <3> QED BY <2>1 DEF Enumerates
  <2>4. /\ t \in [1 .. N + 1 -> DOMAIN new]
        /\ \A i \in 1 .. N : t[i] = s[i]
        /\ t[N + 1] = n + 1
    <3> HIDE DEF D, N, s
    <3>1. s \in Seq(DOMAIN new) /\ n + 1 \in DOMAIN new
      BY <2>1, <2>2, <2>3
    <3>2. /\ t \in Seq(DOMAIN new) /\ Len(t) = N + 1
          /\ \A i \in 1 .. N : t[i] = s[i]
          /\ t[N + 1] = n + 1
      BY <2>3, <3>1, AppendProperties
    <3> HIDE DEF t
    <3>3. t \in [1 .. N + 1 -> DOMAIN new]
      BY <3>2, LenProperties
    <3> QED BY <3>2, <3>3
  <2>5. \A a, b \in DOMAIN new : <<a, b>> \in ByPosition(new) <=>
              new[a] < new[b] \/ (new[a] = new[b] /\ a < b)
    BY DEF ByPosition
  <2>6. Enumerates(t, N + 1, DOMAIN new, ByPosition(new))
    <3>1. \A x \in DOMAIN new : \E i \in 1 .. N + 1 : t[i] = x
      <4> HIDE DEF D, N, s, t
      <4> TAKE x \in DOMAIN new
      <4>1. CASE x = n + 1
        BY <4>1, <2>1, <2>4
      <4>2. CASE x # n + 1
        <5>1. PICK i \in 1 .. N : s[i] = x
          BY <4>2, <2>2, <2>3
        <5> QED BY <5>1, <2>1, <2>4
      <4> QED BY <4>1, <4>2
    <3>2. ASSUME NEW i \in 1 .. N + 1, NEW j \in 1 .. N + 1, i < j
          PROVE  <<t[i], t[j]>> \in ByPosition(new)
      <4> HIDE DEF D, N, s, t
      <4>1. i \in 1 .. N /\ s[i] \in D /\ t[i] = s[i] /\ t[i] \in DOMAIN new
        BY <3>2, <2>1, <2>2, <2>3, <2>4
      <4>2. CASE j = N + 1
        <5>1. t[j] = n + 1 /\ n + 1 \in DOMAIN new
          BY <4>2, <2>1, <2>2, <2>4
        <5>2. new[t[i]] < new[n + 1]
          BY <4>1, <2>1, <2>2
        <5> QED BY <4>1, <5>1, <5>2, <2>5
      <4>3. CASE j # N + 1
        <5>1. j \in 1 .. N /\ s[j] \in D /\ t[j] = s[j] /\ t[j] \in DOMAIN new
          BY <4>3, <2>1, <2>2, <2>3, <2>4
        <5>2. pos[s[i]] < pos[s[j]] \/ (pos[s[i]] = pos[s[j]] /\ s[i] < s[j])
          <6>1. <<s[i], s[j]>> \in ByPosition(pos)
            BY <4>1, <5>1, <3>2, <2>3
          <6> QED BY <6>1 DEF ByPosition
        <5>3. new[s[i]] = pos[s[i]] /\ new[s[j]] = pos[s[j]]
          BY <4>1, <5>1, <2>2
        <5> QED BY <4>1, <5>1, <5>2, <5>3, <2>5
      <4> QED BY <4>2, <4>3
    <3> HIDE DEF D, N, s, t
    <3> QED BY <3>1, <3>2, <2>4 DEF Enumerates
  <2>7. OrderOn(ByPosition(new), DOMAIN new)
    <3>1. n + 1 \in Nat
      OBVIOUS
    <3> QED BY <1>1, <3>1, PositionsOrder
  <2>8. InOrder(new) = t
    <3> HIDE DEF D, N, s, t
    <3>1. N + 1 \in Nat
      BY <2>1
    <3>2. \A x, y \in DOMAIN new : <<x, y>> \in ByPosition(new) => <<y, x>> \notin ByPosition(new)
      BY <2>7 DEF OrderOn
    <3> QED BY <2>6, <3>1, <3>2, EnumerationIsSorted DEF InOrder
  <2>9. Tied(new) => Tied(pos)
    <3> HIDE DEF D, N, s, t
    <3> HAVE Tied(new)
    <3>1. PICK a \in DOMAIN new, b \in DOMAIN new : a # b /\ new[a] = new[b]
      BY DEF Tied
    <3>2. a \in D /\ b \in D
      <4>1. CASE a = n + 1
        <5>1. b \in D
          BY <3>1, <4>1, <2>2
        <5> QED BY <3>1, <4>1, <5>1, <2>2
      <4>2. CASE b = n + 1
        <5>1. a \in D
          BY <3>1, <4>2, <2>2
        <5> QED BY <3>1, <4>2, <5>1, <2>2
      <4> QED BY <4>1, <4>2, <2>2
    <3> QED BY <3>1, <3>2, <2>2 DEF Tied, D
  <2> QED BY <2>8, <2>9
<1> QED BY <1>1, <1>2

\* handlePlaylistItemMove: of two items that exchange their positions, each comes to
\* stand where the other stood, unless some positions are shared.
LEMMA ExchangeIsSeen ==
  ASSUME NEW n \in Nat, NEW old, Placed(old, n),
         NEW i \in 1 .. Cardinality(DOMAIN old), NEW j \in 1 .. Cardinality(DOMAIN old), i # j,
         NEW a, a = InOrder(old)[i], NEW b, b = InOrder(old)[j],
         NEW pos, pos = [k \in DOMAIN old |-> IF k = a THEN old[b]
                                             ELSE IF k = b THEN old[a] ELSE old[k]]
  PROVE  /\ a \in DOMAIN old /\ b \in DOMAIN old /\ a # b
         /\ Placed(pos, n)
         /\ Tied(pos) => Tied(old)
         /\ Tied(old) => Tied(pos)
         /\ ~ Tied(old) => InOrder(pos) = [InOrder(old) EXCEPT ![i] = b, ![j] = a]
         /\ \A k, l \in 1 .. Cardinality(DOMAIN old) : InOrder(old)[k] = InOrder(old)[l] => k = l
<1> DEFINE D == DOMAIN old  N == Cardinality(D)  s == InOrder(old)
           t == [s EXCEPT ![i] = b, ![j] = a]
           other(k) == IF k = a THEN b ELSE IF k = b THEN a ELSE k
<1>1. /\ N \in Nat /\ Enumerates(s, N, D, ByPosition(old))
      /\ \A x, y \in D : <<x, y>> \in ByPosition(old) <=>
              old[x] < old[y] \/ (old[x] = old[y] /\ x < y)
  BY PositionsOrder
<1>2. /\ s \in [1 .. N -> D]
      /\ \A x \in D : \E k \in 1 .. N : s[k] = x
      /\ \A k, l \in 1 .. N : k < l => <<s[k], s[l]>> \in ByPosition(old)
  <2> HIDE DEF D, N, s
  <2> QED BY <1>1 DEF Enumerates
<1>3. \A x \in D : old[x] \in Int
  BY DEF Placed
<1>4. \A k, l \in 1 .. N : s[k] = s[l] => k = l
  <2> TAKE k, l \in 1 .. N
  <2>1. k # l => old[s[k]] # old[s[l]] \/ s[k] # s[l]
    <3> HIDE DEF D, N, s
    <3>1. s[k] \in D /\ s[l] \in D /\ old[s[k]] \in Int /\ k \in Int /\ l \in Int
      BY <1>2, <1>3
    <3>2. CASE k < l
      <4>1. <<s[k], s[l]>> \in ByPosition(old)
        BY <3>2, <1>2
      <4>2. old[s[k]] < old[s[l]] \/ (old[s[k]] = old[s[l]] /\ s[k] < s[l])
        BY <4>1, <3>1, <1>1
      <4>3. ~ (s[k] < s[k])
        <5>1. s[k] \in Int
          BY <3>1 DEF Placed, D
        <5> QED BY <5>1
      <4> QED BY <4>2, <4>3, <3>1
    <3>3. CASE l < k
      <4>1. <<s[l], s[k]>> \in ByPosition(old)
        BY <3>3, <1>2
      <4>2. old[s[l]] < old[s[k]] \/ (old[s[l]] = old[s[k]] /\ s[l] < s[k])
        BY <4>1, <3>1, <1>1
      <4>3. ~ (s[k] < s[k])
        <5>1. s[k] \in Int
          BY <3>1 DEF Placed, D
        <5> QED BY <5>1
      <4> QED BY <4>2, <4>3, <3>1
    <3> QED BY <3>1, <3>2, <3>3
  <2> QED BY <2>1
<1>5. a \in D /\ b \in D /\ a # b
  <2> HIDE DEF D, N
  <2> QED BY <1>2, <1>4 DEF N, D
<1>6. /\ DOMAIN pos = D
      /\ \A k \in D : pos[k] = old[other(k)] /\ other(k) \in D
      /\ \A k \in D : other(other(k)) = k
  <2> HIDE DEF D
  <2> QED BY <1>5 DEF D
<1>7. Placed(pos, n)
  <2>1. \A k \in D : pos[k] \in 0 .. n - 1
    <3> HIDE DEF other
    <3> QED BY <1>6 DEF Placed
  <2>2. pos = [k \in D |-> pos[k]]
    BY <1>6
  <2> QED BY <2>1, <2>2, <1>6 DEF Placed
<1>8. \A x, y \in D : x # y => other(x) # other(y)
  BY <1>6
<1>9. Tied(pos) => Tied(old)
  <2> HAVE Tied(pos)
  <2>1. PICK x \in D, y \in D : x # y /\ pos[x] = pos[y]
    BY <1>6 DEF Tied
  <2>2. /\ other(x) # other(y) /\ old[other(x)] = old[other(y)]
        /\ other(x) \in D /\ other(y) \in D
    <3> HIDE DEF other
    <3> QED BY <2>1, <1>6, <1>8
  <2> HIDE DEF other
  <2> QED BY <2>2 DEF Tied
<1>10. Tied(old) => Tied(pos)
  <2> HAVE Tied(old)
  <2>1. PICK x \in D, y \in D : x # y /\ old[x] = old[y]
    BY DEF Tied
  <2>2. /\ other(x) # other(y) /\ pos[other(x)] = pos[other(y)]
        /\ other(x) \in D /\ other(y) \in D
    <3> HIDE DEF other
    <3> QED BY <2>1, <1>6, <1>8
  <2> HIDE DEF other
  <2> QED BY <2>2, <1>6 DEF Tied
<1>11. ASSUME ~ Tied(old) PROVE InOrder(pos) = t
  <2>1. /\ t \in [1 .. N -> D]
        /\ \A k \in 1 .. N : t[k] = other(s[k])
    <3>1. \A k \in 1 .. N : t[k] = IF k = j THEN a ELSE IF k = i THEN b ELSE s[k]
      <4> HIDE DEF D, s
      <4> QED BY <1>2 DEF D
    <3>2. DOMAIN t = 1 .. N
      <4> HIDE DEF D, s
      <4> QED BY <1>2
    <3>3. \A k \in 1 .. N : (s[k] = a <=> k = i) /\ (s[k] = b <=> k = j)
      BY <1>4
    <3>4. \A k \in 1 .. N : s[k] \in D
      <4> HIDE DEF D, s, N
      <4> QED BY <1>2
    <3>5. \A k \in 1 .. N : t[k] = other(s[k]) /\ t[k] \in D
      <4> HIDE DEF D, s, N, t
      <4> QED BY <3>1, <3>3, <3>4, <1>5
    <3>6. t = [k \in 1 .. N |-> t[k]]
      <4> HIDE DEF D, s, N
      <4> QED BY <1>2, <3>2
    <3> HIDE DEF D, s, N, t, other
    <3> QED BY <3>5, <3>6
  <2>2. \A x, y \in D : <<x, y>> \in ByPosition(pos) <=>
              pos[x] < pos[y] \/ (pos[x] = pos[y] /\ x < y)
    BY <1>6 DEF ByPosition
  <2>3. \A x \in D : \E k \in 1 .. N : t[k] = x
    <3> HIDE DEF D, s, N, t, other
    <3> TAKE x \in D
    <3>1. PICK k \in 1 .. N : s[k] = other(x)
      BY <1>2, <1>6
    <3>2. t[k] = x
      BY <3>1, <2>1, <1>6
    <3> QED BY <3>2
  <2>4. ASSUME NEW k \in 1 .. N, NEW l \in 1 .. N, k < l
        PROVE  <<t[k], t[l]>> \in ByPosition(pos)
    <3> HIDE DEF D, s, N, t, other
    <3>1. /\ s[k] \in D /\ s[l] \in D /\ t[k] = other(s[k]) /\ t[l] = other(s[l])
          /\ t[k] \in D /\ t[l] \in D
      BY <1>2, <2>1
    <3>2. pos[t[k]] = old[s[k]] /\ pos[t[l]] = old[s[l]]
      BY <3>1, <1>6
    <3>3. s[k] # s[l]
      BY <2>4, <1>4
    <3>4. old[s[k]] # old[s[l]]
      BY <3>1, <3>3, <1>11 DEF Tied, D
    <3>5. old[s[k]] < old[s[l]]
      <4>1. <<s[k], s[l]>> \in ByPosition(old)
        BY <2>4, <1>2
      <4> QED BY <4>1, <3>1, <3>4, <1>1
    <3> QED BY <3>1, <3>2, <3>5, <2>2
  <2>5. Enumerates(t, N, D, ByPosition(pos))
    <3> HIDE DEF D, s, N, t, other
    <3> QED BY <2>1, <2>3, <2>4 DEF Enumerates
  <2>6. OrderOn(ByPosition(pos), D)
    BY <1>6, <1>7, PositionsOrder
  <2>7. \A x, y \in D : <<x, y>> \in ByPosition(pos) => <<y, x>> \notin ByPosition(pos)
    BY <2>6 DEF OrderOn
  <2> HIDE DEF D, s, N, t, other
  <2> QED BY <2>5, <2>7, <1>1, <1>6, EnumerationIsSorted DEF InOrder
<1> QED BY <1>4, <1>5, <1>7, <1>9, <1>10, <1>11

-----------------------------------------------------------------------------
(* The invariant. *)
PlaylistRequests == [step : Steps, asked : Asked, read : Seq(Int \cup (Int \X Int)),
                     seen : Seq(Nat), alone : BOOLEAN]

PlaylistTyped ==
  /\ Placed(position, lastItem) /\ lastItem \in Nat
  /\ request \in [Requests -> PlaylistRequests]
  /\ defaults \subseteq lists /\ lists \subseteq 1 .. lastList /\ lastList \in Nat
  /\ budget \in 0 .. Budget /\ mixed \in BOOLEAN /\ reseeded \in BOOLEAN

\* What a request has read is a position, or two, that were in the table.
FitsTable(q, n) ==
  /\ q.step = "insert" => q.read[1] \in -1 .. n - 1
  /\ q.step \in {"first", "second"} =>
       q.read[1][2] \in 0 .. n - 1 /\ q.read[2][2] \in 0 .. n - 1
ReadsFit == \A r \in Requests : FitsTable(request[r], lastItem)

\* Every item that was or will be added has been paid for.
Inserters == {r \in Requests : request[r].step \in {"max", "insert"}}
ItemsCounted ==
  /\ IsFiniteSet(Inserters) /\ FirstItems <= lastItem
  /\ lastItem + Cardinality(Inserters) + budget <= FirstItems + Budget

\* Which button brings a request where.
FitsButton(q) ==
  /\ q.step \in {"max", "insert"} => q.asked.op = "add"
  /\ q.step \in {"list", "first", "second"} => q.asked.op \in {"up", "down"}
  /\ q.step = "clear" => q.asked.op \in {"create", "default"}
  /\ q.step = "create" => q.asked.op = "create"
  /\ q.step = "mark" => q.asked.op = "default"
  /\ q.step = "answer" => q.asked.op # "none"
StepsFit == \A r \in Requests : FitsButton(request[r])

\* A request that is alone is, and without mixed requests every request is alone.
AloneIsAlone ==
  /\ \A r \in UnderWay : request[r].alone => UnderWay = {r}
  /\ mixed \/ \A r \in UnderWay : request[r].alone

\* What a move is about to write, after it has read the positions `old`.
WillExchange(r, old) ==
  LET asked == request[r].asked
      seen  == request[r].seen
  IN \E i, j \in DOMAIN seen :
       /\ seen[i] = asked.arg
       /\ \/ asked.op = "up" /\ j = i - 1
          \/ asked.op = "down" /\ j = i + 1
       /\ request[r].read = << <<seen[i], old[seen[j]]>>, <<seen[j], old[seen[i]]>> >>

HalfExchanged(r) ==
  \E old \in [DOMAIN position -> 0 .. lastItem - 1] :
    /\ request[r].seen = InOrder(old) /\ WillExchange(r, old)
    /\ position = [k \in DOMAIN old |-> IF k = request[r].read[1][1] THEN request[r].read[1][2]
                                        ELSE old[k]]
    /\ Tied(old) => mixed

\* What a request that is alone may rely on.
AloneKnows(r) ==
  LET step == request[r].step
      asked == request[r].asked
  IN /\ step \in {"max", "insert", "list", "first"} => request[r].seen = InOrder(position)
     /\ step = "insert" => request[r].read[1] = MaxPosition(position)
     /\ step = "list" => asked.arg \in DOMAIN position
     /\ step = "first" => WillExchange(r, position)
     /\ step = "second" => HalfExchanged(r)
     /\ step \in {"clear", "mark"} /\ asked.op = "default" => asked.arg \in lists
     /\ step \in {"create", "mark"} => defaults = {}
     /\ step = "answer" => Kept(r)

TiesComeFromMixing ==
  Tied(position) => mixed \/ \E r \in Requests : request[r].step = "second"

OneDefault == mixed \/ reseeded \/ \A c, d \in defaults : c = d

PlaylistInv ==
  /\ PlaylistTyped /\ ReadsFit /\ ItemsCounted /\ StepsFit /\ AloneIsAlone
  /\ \A r \in UnderWay : request[r].alone => AloneKnows(r)
  /\ TiesComeFromMixing /\ OneDefault

LEMMA PlaylistBounds == FirstItems \in Nat /\ Budget \in Nat
BY AdministrationConstants DEF PlaylistConstants

LEMMA NoRequestTyped ==
  /\ NoRequest \in PlaylistRequests /\ NoRequest.step = "idle" /\ NoRequest.alone
  /\ \A n : FitsTable(NoRequest, n)
  /\ FitsButton(NoRequest)
<1>1. << >> \in Seq(Int \cup (Int \X Int)) /\ << >> \in Seq(Nat)
  OBVIOUS
<1> QED BY <1>1 DEF NoRequest, PlaylistRequests, Steps, Asked, FitsTable, FitsButton

\* While one request acts, nobody else is alone: what it leaves behind concerns
\* only its own claims.
LEMMA OneActs ==
  ASSUME PlaylistInv, NEW r \in Requests, request[r].step # "idle",
         NEW new \in PlaylistRequests, new.step # "idle",
         new.alone = request[r].alone,
         request' = [request EXCEPT ![r] = new],
         UNCHANGED <<budget, mixed, reseeded>>,
         Placed(position', lastItem'),
         defaults' \subseteq lists', lists' \subseteq 1 .. lastList', lastList' \in Nat,
         \/ lastItem' = lastItem /\ (new.step = "insert" => request[r].step = "max")
         \/ lastItem' = lastItem + 1 /\ request[r].step = "insert" /\ new.step # "insert",
         new.step # "max",
         FitsTable(new, lastItem'), FitsButton(new),
         new.alone => AloneKnows(r)',
         TiesComeFromMixing', OneDefault'
  PROVE  PlaylistInv'
<1>1. /\ request' \in [Requests -> PlaylistRequests] /\ request'[r] = new
      /\ \A q \in Requests : q # r => request'[q] = request[q]
  BY DEF PlaylistInv, PlaylistTyped
<1>2. UnderWay' = UnderWay /\ r \in UnderWay
  BY <1>1 DEF UnderWay
<1>3. lastItem \in Nat /\ lastItem' \in Nat /\ lastItem <= lastItem'
  BY DEF PlaylistInv, PlaylistTyped
<1>4. PlaylistTyped'
  BY <1>1, <1>3 DEF PlaylistInv, PlaylistTyped
<1>5. ReadsFit'
  <2> SUFFICES ASSUME NEW q \in Requests PROVE FitsTable(request'[q], lastItem')
    BY DEF ReadsFit
  <2>1. CASE q = r
    BY <2>1, <1>1
  <2>2. CASE q # r
    <3>1. FitsTable(request[q], lastItem) /\ request'[q] = request[q]
      BY <2>2, <1>1 DEF PlaylistInv, ReadsFit
    <3> QED BY <3>1, <1>3 DEF FitsTable
  <2> QED BY <2>1, <2>2
<1>6. ItemsCounted'
  <2>1. IsFiniteSet(Inserters) /\ Cardinality(Inserters) \in Nat
    BY FS_CardinalityType DEF PlaylistInv, ItemsCounted
  <2>2. /\ FirstItems <= lastItem /\ FirstItems \in Nat /\ Budget \in Nat /\ budget \in Int
        /\ lastItem + Cardinality(Inserters) + budget <= FirstItems + Budget
    BY PlaylistBounds DEF PlaylistInv, ItemsCounted, PlaylistTyped
  <2>3. CASE lastItem' = lastItem
    <3>1. Inserters' \in SUBSET Inserters
      BY <1>1, <2>3, <1>3 DEF Inserters
    <3>2. IsFiniteSet(Inserters') /\ Cardinality(Inserters') <= Cardinality(Inserters)
      BY <3>1, <2>1, FS_Subset
    <3>3. Cardinality(Inserters') \in Nat
      BY <3>2, FS_CardinalityType
    <3> QED BY <2>1, <2>2, <2>3, <3>2, <3>3, <1>3 DEF ItemsCounted
  <2>4. CASE lastItem' = lastItem + 1
    <3>1. request[r].step = "insert" /\ new.step # "insert"
      BY <2>4, <1>3
    <3>2. Inserters' = Inserters \ {r} /\ r \in Inserters
      BY <1>1, <3>1 DEF Inserters
    <3>3. IsFiniteSet(Inserters') /\ Cardinality(Inserters') = Cardinality(Inserters) - 1
      BY <3>2, <2>1, FS_RemoveElement
    <3> QED BY <2>1, <2>2, <2>4, <3>3, <1>3 DEF ItemsCounted
  <2> QED BY <2>3, <2>4
<1>7. StepsFit'
  BY <1>1 DEF PlaylistInv, StepsFit
<1>8. AloneIsAlone'
  BY <1>1, <1>2 DEF PlaylistInv, AloneIsAlone
<1>9. \A q \in UnderWay' : request'[q].alone => AloneKnows(q)'
  <2> TAKE q \in UnderWay'
  <2> HAVE request'[q].alone
  <2>1. CASE q = r
    BY <2>1, <1>1
  <2>2. CASE q # r
    <3>1. q \in UnderWay /\ request[q].alone
      BY <2>2, <1>1, <1>2 DEF UnderWay
    <3>2. UnderWay = {q}
      BY <3>1 DEF PlaylistInv, AloneIsAlone
    <3> QED BY <2>2, <1>2, <3>2
  <2> QED BY <2>1, <2>2
<1> QED BY <1>4, <1>5, <1>6, <1>7, <1>8, <1>9 DEF PlaylistInv

LEMMA PlaylistInitInv == PlaylistInit => PlaylistInv
<1> SUFFICES ASSUME PlaylistInit PROVE PlaylistInv
  OBVIOUS
<1>0. FirstItems \in Nat /\ Budget \in Nat
  BY PlaylistBounds
<1>1. /\ \A r \in Requests : request[r] = NoRequest
      /\ request \in [Requests -> PlaylistRequests]
  BY NoRequestTyped DEF PlaylistInit
<1>2. /\ position = [i \in 1 .. FirstItems |-> i - 1] /\ lastItem = FirstItems
      /\ lists = {1, 2} /\ defaults = {1} /\ lastList = 2 /\ budget = Budget
      /\ mixed = FALSE /\ reseeded = FALSE
  BY DEF PlaylistInit
<1>3. DOMAIN position = 1 .. FirstItems /\ \A i \in 1 .. FirstItems : position[i] = i - 1
  BY <1>2
<1>4. Placed(position, lastItem)
  <2>1. \A i \in 1 .. FirstItems : i - 1 \in 0 .. FirstItems - 1
    BY <1>0
  <2> QED BY <1>2, <1>3, <2>1 DEF Placed
<1>5. Inserters = {} /\ UnderWay = {}
  BY <1>1, NoRequestTyped DEF Inserters, UnderWay
<1>6. PlaylistTyped
  <2>1. defaults \subseteq lists /\ lists \subseteq 1 .. lastList /\ lastList \in Nat
    BY <1>2
  <2>2. budget \in 0 .. Budget /\ lastItem \in Nat
    BY <1>0, <1>2
  <2> QED BY <1>1, <1>2, <1>4, <2>1, <2>2 DEF PlaylistTyped
<1>7. ItemsCounted
  BY <1>0, <1>2, <1>5, FS_EmptySet DEF ItemsCounted
<1>8. ~ Tied(position)
  BY <1>0, <1>3 DEF Tied
<1>9. ReadsFit /\ StepsFit
  BY <1>1, NoRequestTyped DEF ReadsFit, StepsFit
<1> QED BY <1>2, <1>5, <1>6, <1>7, <1>8, <1>9
        DEF PlaylistInv, AloneIsAlone, TiesComeFromMixing, OneDefault

LEMMA PlaylistStutters ==
  ASSUME PlaylistInv, UNCHANGED playlistVars
  PROVE  PlaylistInv'
<1>1. /\ position' = position /\ lastItem' = lastItem /\ lists' = lists /\ defaults' = defaults
      /\ lastList' = lastList /\ request' = request /\ budget' = budget /\ mixed' = mixed
      /\ reseeded' = reseeded
  BY DEF playlistVars
<1>2. \A r : AloneKnows(r) => AloneKnows(r)'
  <2> TAKE r
  <2>1. Kept(r) => Kept(r)'
    BY <1>1 DEF Kept
  <2>2. HalfExchanged(r) => HalfExchanged(r)'
    BY <1>1 DEF HalfExchanged, WillExchange
  <2>3. WillExchange(r, position) => WillExchange(r, position)'
    BY <1>1 DEF WillExchange
  <2> QED BY <1>1, <2>1, <2>2, <2>3 DEF AloneKnows
<1>3. PlaylistTyped' /\ ReadsFit' /\ StepsFit'
  BY <1>1 DEF PlaylistInv, PlaylistTyped, ReadsFit, StepsFit
<1>4. Inserters' = Inserters /\ UnderWay' = UnderWay
  BY <1>1 DEF Inserters, UnderWay
<1>5. ItemsCounted' /\ AloneIsAlone' /\ TiesComeFromMixing' /\ OneDefault'
  BY <1>1, <1>4 DEF PlaylistInv, ItemsCounted, AloneIsAlone, TiesComeFromMixing, OneDefault
<1> QED BY <1>1, <1>2, <1>3, <1>4, <1>5 DEF PlaylistInv

\* A step that writes no position shares none.
LEMMA TiesStay ==
  ASSUME PlaylistInv, NEW r \in Requests, request[r].step # "second", NEW new,
         request' = [request EXCEPT ![r] = new], position' = position, mixed => mixed'
  PROVE  TiesComeFromMixing'
<1>1. \A q \in Requests : request[q].step = "second" => request'[q].step = "second"
  BY DEF PlaylistInv, PlaylistTyped
<1> QED BY <1>1 DEF PlaylistInv, TiesComeFromMixing

LEMMA ReadMaxKeeps ==
  ASSUME PlaylistInv, NEW r \in Requests, ReadMax(r)
  PROVE  PlaylistInv'
<1> DEFINE new == [request[r] EXCEPT !.step = "insert", !.read = <<MaxPosition(position)>>]
<1>1. /\ request \in [Requests -> PlaylistRequests] /\ request[r] \in PlaylistRequests
      /\ lastItem \in Nat /\ Placed(position, lastItem)
  BY DEF PlaylistInv, PlaylistTyped
<1>2. MaxPosition(position) \in -1 .. lastItem - 1
  BY <1>1, MaxPositionBounds
<1>3. <<MaxPosition(position)>> \in Seq(Int \cup (Int \X Int))
  BY <1>2
<1>4. /\ new \in PlaylistRequests /\ new.step = "insert" /\ new.read = <<MaxPosition(position)>>
      /\ new.alone = request[r].alone /\ new.asked = request[r].asked
      /\ new.seen = request[r].seen
  <2> QED BY <1>1, <1>3 DEF PlaylistRequests, Steps
<1>5. request[r].step = "max" /\ request' = [request EXCEPT ![r] = new]
  BY <1>1 DEF ReadMax
<1>6. UNCHANGED <<position, lastItem, lists, defaults, lastList, budget, mixed, reseeded>>
  BY DEF ReadMax
<1> HIDE DEF new
<1>7. request'[r] = new
  BY <1>1, <1>5
<1>8. FitsTable(new, lastItem') /\ FitsButton(new)
  <2>1. FitsButton(request[r])
    BY DEF PlaylistInv, StepsFit
  <2> QED BY <2>1, <1>2, <1>4, <1>5, <1>6 DEF FitsTable, FitsButton
<1>9. new.alone => AloneKnows(r)'
  <2> HAVE new.alone
  <2>1. AloneKnows(r)
    BY <1>4, <1>5 DEF PlaylistInv, UnderWay
  <2> QED BY <2>1, <1>4, <1>5, <1>6, <1>7 DEF AloneKnows
<1>10. TiesComeFromMixing'
  BY <1>5, <1>6, TiesStay
<1>11. OneDefault'
  BY <1>6 DEF PlaylistInv, OneDefault
<1>12. Placed(position', lastItem') /\ defaults' \subseteq lists' /\ lists' \subseteq 1 .. lastList'
       /\ lastList' \in Nat
  BY <1>6 DEF PlaylistInv, PlaylistTyped
<1> QED BY <1>4, <1>5, <1>6, <1>8, <1>9, <1>10, <1>11, <1>12, OneActs

LEMMA InsertKeeps ==
  ASSUME PlaylistInv, NEW r \in Requests, Insert(r)
  PROVE  PlaylistInv'
<1> DEFINE new == [request[r] EXCEPT !.step = "answer"]
           m   == request[r].read[1]
<1>1. /\ request \in [Requests -> PlaylistRequests] /\ request[r] \in PlaylistRequests
      /\ lastItem \in Nat /\ Placed(position, lastItem)
  BY DEF PlaylistInv, PlaylistTyped
<1>2. /\ request[r].step = "insert" /\ request' = [request EXCEPT ![r] = new]
      /\ lastItem' = lastItem + 1
      /\ UNCHANGED <<lists, defaults, lastList, budget, mixed, reseeded>>
  BY <1>1 DEF Insert, Goes
<1>3. /\ new \in PlaylistRequests /\ new.step = "answer"
      /\ new.alone = request[r].alone /\ new.asked = request[r].asked
      /\ new.seen = request[r].seen
  BY <1>1 DEF PlaylistRequests, Steps
<1>4. m \in -1 .. lastItem - 1
  BY <1>2 DEF PlaylistInv, ReadsFit, FitsTable
<1>5. position' = [i \in DOMAIN position \cup {lastItem + 1} |->
                     IF i = lastItem + 1 THEN m + 1 ELSE position[i]]
  BY <1>2 DEF Insert
<1> HIDE DEF new, m
<1>6. /\ Placed(position', lastItem')
      /\ m = MaxPosition(position) =>
           /\ InOrder(position') = Append(InOrder(position), lastItem')
           /\ Tied(position') => Tied(position)
  BY <1>1, <1>2, <1>4, <1>5, AddedComesLast
<1>7. request'[r] = new
  BY <1>1, <1>2
<1>8. FitsTable(new, lastItem') /\ FitsButton(new)
  <2>1. FitsButton(request[r])
    BY DEF PlaylistInv, StepsFit
  <2> QED BY <2>1, <1>2, <1>3 DEF FitsTable, FitsButton
<1>9. r \in UnderWay /\ (new.alone => AloneKnows(r))
  BY <1>2, <1>3 DEF PlaylistInv, UnderWay
<1>10. new.alone => m = MaxPosition(position)
  BY <1>2, <1>9 DEF AloneKnows, m
<1>11. new.alone => AloneKnows(r)'
  <2> HAVE new.alone
  <2>1. request[r].seen = InOrder(position) /\ request[r].asked.op = "add"
    BY <1>2, <1>9 DEF AloneKnows, PlaylistInv, StepsFit, FitsButton
  <2>2. InOrder(position') = Append(request'[r].seen, lastItem') /\ request'[r].asked.op = "add"
    BY <2>1, <1>3, <1>6, <1>7, <1>10
  <2>3. Kept(r)'
    BY <2>2 DEF Kept
  <2> QED BY <2>3, <1>3, <1>7 DEF AloneKnows
<1>12. TiesComeFromMixing'
  <2> SUFFICES ASSUME Tied(position'), ~ mixed' PROVE FALSE
    BY DEF TiesComeFromMixing
  <2>1. new.alone /\ UnderWay = {r}
    BY <1>2, <1>3, <1>9 DEF PlaylistInv, AloneIsAlone
  <2>2. Tied(position)
    BY <2>1, <1>6, <1>10
  <2>3. PICK q \in Requests : request[q].step = "second"
    BY <2>2, <1>2 DEF PlaylistInv, TiesComeFromMixing
  <2> QED BY <2>1, <2>3, <1>2 DEF UnderWay
<1>13. OneDefault'
  BY <1>2 DEF PlaylistInv, OneDefault
<1>14. defaults' \subseteq lists' /\ lists' \subseteq 1 .. lastList' /\ lastList' \in Nat
  BY <1>2 DEF PlaylistInv, PlaylistTyped
<1> QED BY <1>2, <1>3, <1>6, <1>8, <1>11, <1>12, <1>13, <1>14, OneActs

LEMMA ReadItemsKeeps ==
  ASSUME PlaylistInv, NEW r \in Requests, ReadItems(r)
  PROVE  PlaylistInv'
<1> DEFINE asked == request[r].asked
           items == InOrder(position)
           i     == IndexIn(items, asked.arg)
           j     == SwapIndex(asked.op, i, Len(items))
           D     == DOMAIN position
           N     == Cardinality(D)
           read  == IF j = 0 THEN << >>
                    ELSE << <<items[i], position[items[j]]>>, <<items[j], position[items[i]]>> >>
           new   == [request[r] EXCEPT !.step = IF j = 0 THEN "answer" ELSE "first", !.read = read]
<1>1. /\ request \in [Requests -> PlaylistRequests] /\ request[r] \in PlaylistRequests
      /\ lastItem \in Nat /\ Placed(position, lastItem)
  BY DEF PlaylistInv, PlaylistTyped
<1>2. /\ request[r].step = "list" /\ request' = [request EXCEPT ![r] = new]
      /\ UNCHANGED <<position, lastItem, lists, defaults, lastList, budget, mixed, reseeded>>
  BY <1>1 DEF ReadItems
<1>3. /\ N \in Nat /\ items \in [1 .. N -> D] /\ \A x \in D : \E k \in 1 .. N : items[k] = x
  BY <1>1, PositionsOrder DEF Enumerates
<1>4. Len(items) = N /\ DOMAIN items = 1 .. N
  <2> HIDE DEF items, N, D
  <2> QED BY <1>3
<1>5. /\ i \in 0 .. N /\ (i # 0 => items[i] = asked.arg) /\ (asked.arg \in D => i # 0)
  <2> DEFINE x == asked.arg
  <2> HIDE DEF items, N, D, x
  <2>1. /\ IndexIn(items, x) \in 0 .. Len(items)
        /\ IndexIn(items, x) # 0 => items[IndexIn(items, x)] = x
        /\ \A k \in 1 .. Len(items) : items[k] = x => IndexIn(items, x) # 0
    BY <1>3, <1>4, SelectIndex
  <2>2. x \in D => IndexIn(items, x) # 0
    BY <2>1, <1>3, <1>4
  <2> QED BY <2>1, <2>2, <1>4 DEF x
<1>6. asked.op \in {"up", "down"}
  BY <1>2 DEF PlaylistInv, StepsFit, FitsButton
<1>7. /\ j # 0 => i \in 1 .. N /\ j \in 1 .. N
      /\ j # 0 => (asked.op = "up" /\ j = i - 1) \/ (asked.op = "down" /\ j = i + 1)
      /\ j = 0 /\ i # 0 => (IF asked.op = "up" THEN i - 1 ELSE i + 1) \notin 1 .. N
  <2>1. j = CASE asked.op = "up" /\ i > 1 -> i - 1
              [] asked.op = "down" /\ 0 < i /\ i < N  -> i + 1
              [] OTHER -> 0
    BY <1>4 DEF SwapIndex
  <2> HIDE DEF i, j, N, asked
  <2> QED BY <2>1, <1>3, <1>5, <1>6
<1>8. \A k \in 1 .. N : items[k] \in D /\ items[k] \in Int /\ position[items[k]] \in 0 .. lastItem - 1
  <2> HIDE DEF items, N
  <2> QED BY <1>1, <1>3 DEF Placed
<1>9. /\ read \in Seq(Int \cup (Int \X Int))
      /\ j # 0 => read[1][2] \in 0 .. lastItem - 1 /\ read[2][2] \in 0 .. lastItem - 1
  <2>1. CASE j = 0
    <3>1. read = << >>
      BY <2>1
    <3> HIDE DEF read, j
    <3> QED BY <3>1, <2>1
  <2>2. CASE j # 0
    <3> DEFINE a == items[i]  b == items[j]  p == position[items[j]]  q == position[items[i]]
    <3>1. read = << <<a, p>>, <<b, q>> >>
      BY <2>2
    <3>2. a \in Int /\ b \in Int /\ p \in 0 .. lastItem - 1 /\ q \in 0 .. lastItem - 1
      <4> HIDE DEF items, i, j, N
      <4> QED BY <2>2, <1>7, <1>8
    <3> HIDE DEF read, j, a, b, p, q
    <3>3. <<a, p>> \in Int \cup (Int \X Int) /\ <<b, q>> \in Int \cup (Int \X Int)
      BY <3>2
    <3> QED BY <3>1, <3>2, <3>3
  <2> QED BY <2>1, <2>2
<1>10. /\ new \in PlaylistRequests /\ new.step = (IF j = 0 THEN "answer" ELSE "first")
       /\ new.read = read /\ new.alone = request[r].alone /\ new.asked = asked
       /\ new.seen = request[r].seen
  <2> HIDE DEF read, j
  <2> QED BY <1>1, <1>9 DEF PlaylistRequests, Steps
<1> HIDE DEF new
<1>11. request'[r] = new
  BY <1>1, <1>2
<1>12. FitsTable(new, lastItem') /\ FitsButton(new)
  <2> HIDE DEF read, j, asked
  <2> QED BY <1>2, <1>6, <1>9, <1>10 DEF FitsTable, FitsButton
<1>13. new.alone => AloneKnows(r)'
  <2> HAVE new.alone
  <2>1. AloneKnows(r)
    BY <1>2, <1>10 DEF PlaylistInv, UnderWay
  <2>2. new.seen = items /\ asked.arg \in D /\ i # 0 /\ items[i] = asked.arg
    BY <2>1, <1>2, <1>5, <1>10 DEF AloneKnows
  <2>3. CASE j = 0
    <3>1. Exchanged(items, asked.op, asked.arg) = items
      <4>1. (IF asked.op = "up" THEN i - 1 ELSE i + 1) \notin DOMAIN items
        BY <2>2, <2>3, <1>4, <1>7
      <4> QED BY <4>1 DEF Exchanged
    <3>2. InOrder(position') = Exchanged(request'[r].seen, request'[r].asked.op, request'[r].asked.arg)
      BY <3>1, <2>2, <1>2, <1>10, <1>11
    <3>3. Kept(r)'
      <4> HIDE DEF asked
      <4> QED BY <3>2, <1>6, <1>10, <1>11 DEF Kept
    <3> QED BY <2>3, <3>3, <1>10, <1>11 DEF AloneKnows
  <2>4. CASE j # 0
    <3>1. /\ i \in DOMAIN items /\ j \in DOMAIN items
          /\ (asked.op = "up" /\ j = i - 1) \/ (asked.op = "down" /\ j = i + 1)
      BY <2>4, <1>4, <1>7
    <3>2. new.read = << <<items[i], position[items[j]]>>, <<items[j], position[items[i]]>> >>
      BY <2>4, <1>10
    <3>3. WillExchange(r, position)'
      <4> HIDE DEF items, i, j, asked, read
      <4> QED BY <2>2, <3>1, <3>2, <1>2, <1>10, <1>11 DEF WillExchange
    <3> QED BY <2>2, <2>4, <3>3, <1>2, <1>10, <1>11 DEF AloneKnows
  <2> QED BY <2>3, <2>4
<1>14. TiesComeFromMixing'
  BY <1>2, TiesStay
<1>15. OneDefault'
  BY <1>2 DEF PlaylistInv, OneDefault
<1>16. Placed(position', lastItem') /\ defaults' \subseteq lists' /\ lists' \subseteq 1 .. lastList'
       /\ lastList' \in Nat
  BY <1>2 DEF PlaylistInv, PlaylistTyped
<1> HIDE DEF asked, items, i, j, read
<1> QED BY <1>2, <1>10, <1>12, <1>13, <1>14, <1>15, <1>16, OneActs DEF asked

LEMMA PlaceFirstKeeps ==
  ASSUME PlaylistInv, NEW r \in Requests, PlaceFirst(r)
  PROVE  PlaylistInv'
<1> DEFINE new == [request[r] EXCEPT !.step = "second"]
           change == request[r].read[1]
<1>1. /\ request \in [Requests -> PlaylistRequests] /\ request[r] \in PlaylistRequests
      /\ lastItem \in Nat /\ Placed(position, lastItem)
  BY DEF PlaylistInv, PlaylistTyped
<1>2. /\ request[r].step = "first" /\ request' = [request EXCEPT ![r] = new]
      /\ position' = [i \in DOMAIN position |-> IF i = change[1] THEN change[2] ELSE position[i]]
      /\ UNCHANGED <<lastItem, lists, defaults, lastList, budget, mixed, reseeded>>
  BY <1>1 DEF PlaceFirst, Place, Goes
<1>3. /\ new \in PlaylistRequests /\ new.step = "second" /\ new.read = request[r].read
      /\ new.alone = request[r].alone /\ new.asked = request[r].asked
      /\ new.seen = request[r].seen
  BY <1>1 DEF PlaylistRequests, Steps
<1> HIDE DEF new
<1>4. request'[r] = new
  BY <1>1, <1>2
<1>5. FitsTable(request[r], lastItem) /\ FitsButton(request[r])
  BY DEF PlaylistInv, StepsFit, ReadsFit
<1>6. FitsTable(new, lastItem') /\ FitsButton(new)
  BY <1>2, <1>3, <1>5 DEF FitsTable, FitsButton
<1>7. DOMAIN position' = DOMAIN position /\ Placed(position', lastItem')
  <2>1. change[2] \in 0 .. lastItem - 1
    BY <1>2, <1>5 DEF FitsTable
  <2> HIDE DEF change
  <2>2. \A i \in DOMAIN position :
          (IF i = change[1] THEN change[2] ELSE position[i]) \in 0 .. lastItem - 1
    BY <1>1, <2>1 DEF Placed
  <2> QED BY <1>1, <1>2, <2>2 DEF Placed
<1>8. r \in UnderWay /\ (new.alone => AloneKnows(r) /\ UnderWay = {r})
  BY <1>2, <1>3 DEF PlaylistInv, UnderWay, AloneIsAlone
<1>9. Tied(position) => mixed \/ ~ new.alone
  <2> SUFFICES ASSUME Tied(position), ~ mixed, new.alone PROVE FALSE
    OBVIOUS
  <2>1. PICK q \in Requests : request[q].step = "second"
    BY DEF PlaylistInv, TiesComeFromMixing
  <2> QED BY <2>1, <1>2, <1>8 DEF UnderWay
<1>10. new.alone => AloneKnows(r)'
  <2> HAVE new.alone
  <2>1. /\ request[r].seen = InOrder(position) /\ WillExchange(r, position)
    BY <1>2, <1>8 DEF AloneKnows
  <2>3. HalfExchanged(r)'
    <3> DEFINE old == position
    <3>1. old \in [DOMAIN position' -> 0 .. lastItem' - 1]
      BY <1>1, <1>2, <1>7 DEF Placed
    <3>2. \E i, j \in DOMAIN request'[r].seen :
           /\ request'[r].seen[i] = request'[r].asked.arg
           /\ \/ request'[r].asked.op = "up" /\ j = i - 1
              \/ request'[r].asked.op = "down" /\ j = i + 1
           /\ request'[r].read = << <<request'[r].seen[i], old[request'[r].seen[j]]>>,
                                    <<request'[r].seen[j], old[request'[r].seen[i]]>> >>
      BY <2>1, <1>3, <1>4 DEF WillExchange
    <3>3. position' = [k \in DOMAIN old |-> IF k = request'[r].read[1][1]
                                            THEN request'[r].read[1][2] ELSE old[k]]
      BY <1>2, <1>3, <1>4
    <3>4. request'[r].seen = InOrder(old) /\ (Tied(old) => mixed')
      BY <2>1, <1>2, <1>3, <1>4, <1>9
    <3> QED BY <3>1, <3>2, <3>3, <3>4 DEF HalfExchanged, WillExchange
  <2> QED BY <2>3, <1>3, <1>4 DEF AloneKnows
<1>11. TiesComeFromMixing'
  BY <1>3, <1>4 DEF TiesComeFromMixing
<1>12. OneDefault'
  BY <1>2 DEF PlaylistInv, OneDefault
<1>13. defaults' \subseteq lists' /\ lists' \subseteq 1 .. lastList' /\ lastList' \in Nat
  BY <1>2 DEF PlaylistInv, PlaylistTyped
<1> QED BY <1>2, <1>3, <1>6, <1>7, <1>10, <1>11, <1>12, <1>13, OneActs

LEMMA PlaceSecondKeeps ==
  ASSUME PlaylistInv, NEW r \in Requests, PlaceSecond(r)
  PROVE  PlaylistInv'
<1> DEFINE new == [request[r] EXCEPT !.step = "answer"]
           change == request[r].read[2]
<1>1. /\ request \in [Requests -> PlaylistRequests] /\ request[r] \in PlaylistRequests
      /\ lastItem \in Nat /\ Placed(position, lastItem)
  BY DEF PlaylistInv, PlaylistTyped
<1>2. /\ request[r].step = "second" /\ request' = [request EXCEPT ![r] = new]
      /\ position' = [k \in DOMAIN position |-> IF k = change[1] THEN change[2] ELSE position[k]]
      /\ UNCHANGED <<lastItem, lists, defaults, lastList, budget, mixed, reseeded>>
  BY <1>1 DEF PlaceSecond, Place, Goes
<1>3. /\ new \in PlaylistRequests /\ new.step = "answer" /\ new.read = request[r].read
      /\ new.alone = request[r].alone /\ new.asked = request[r].asked
      /\ new.seen = request[r].seen
  BY <1>1 DEF PlaylistRequests, Steps
<1> HIDE DEF new
<1>4. request'[r] = new
  BY <1>1, <1>2
<1>5. FitsTable(request[r], lastItem) /\ FitsButton(request[r])
  BY DEF PlaylistInv, StepsFit, ReadsFit
<1>6. FitsTable(new, lastItem') /\ FitsButton(new)
  BY <1>2, <1>3, <1>5 DEF FitsTable, FitsButton
<1>7. DOMAIN position' = DOMAIN position /\ Placed(position', lastItem')
  <2>1. change[2] \in 0 .. lastItem - 1
    BY <1>2, <1>5 DEF FitsTable
  <2> HIDE DEF change
  <2>2. \A i \in DOMAIN position :
          (IF i = change[1] THEN change[2] ELSE position[i]) \in 0 .. lastItem - 1
    BY <1>1, <2>1 DEF Placed
  <2> QED BY <1>1, <1>2, <2>2 DEF Placed
<1>8. r \in UnderWay /\ (new.alone => AloneKnows(r)) /\ (new.alone \/ mixed)
  BY <1>2, <1>3 DEF PlaylistInv, UnderWay, AloneIsAlone
<1>9. ASSUME new.alone PROVE (Tied(position') => mixed) /\ Kept(r)'
  <2> DEFINE asked == request[r].asked  seen == request[r].seen
  <2>1. HalfExchanged(r)
    BY <1>2, <1>8, <1>9 DEF AloneKnows
  <2>2. PICK old \in [DOMAIN position -> 0 .. lastItem - 1] :
          /\ seen = InOrder(old) /\ WillExchange(r, old)
          /\ position = [k \in DOMAIN old |-> IF k = request[r].read[1][1]
                                              THEN request[r].read[1][2] ELSE old[k]]
          /\ Tied(old) => mixed
    BY <2>1 DEF HalfExchanged
  <2>3. PICK i \in DOMAIN seen, j \in DOMAIN seen :
          /\ seen[i] = asked.arg
          /\ \/ asked.op = "up" /\ j = i - 1
             \/ asked.op = "down" /\ j = i + 1
          /\ request[r].read = << <<seen[i], old[seen[j]]>>, <<seen[j], old[seen[i]]>> >>
    BY <2>2 DEF WillExchange
  <2> DEFINE N == Cardinality(DOMAIN old)  a == seen[i]  b == seen[j]
             swapped == [k \in DOMAIN old |-> IF k = a THEN old[b]
                                             ELSE IF k = b THEN old[a] ELSE old[k]]
  <2> HIDE DEF asked, seen
  <2>4. Placed(old, lastItem)
    BY <2>2, <1>1 DEF Placed
  <2>5. N \in Nat /\ seen \in [1 .. N -> DOMAIN old]
    BY <1>1, <2>2, <2>4, PositionsOrder DEF Enumerates
  <2>6. i \in 1 .. N /\ j \in 1 .. N /\ i # j
    <3>1. i \in 1 .. N /\ j \in 1 .. N
      <4> HIDE DEF N
      <4> QED BY <2>5
    <3> QED BY <3>1, <2>3
  <2>7. /\ a \in DOMAIN old /\ b \in DOMAIN old /\ a # b
        /\ Tied(swapped) => Tied(old)
        /\ ~ Tied(old) => InOrder(swapped) = [InOrder(old) EXCEPT ![i] = b, ![j] = a]
        /\ \A k, l \in 1 .. N : seen[k] = seen[l] => k = l
    <3>1. a = InOrder(old)[i] /\ b = InOrder(old)[j]
      BY <2>2
    <3> HIDE DEF swapped, a, b
    <3>2. swapped = [k \in DOMAIN old |-> IF k = a THEN old[b]
                                          ELSE IF k = b THEN old[a] ELSE old[k]]
      BY DEF swapped
    <3>3. /\ a \in DOMAIN old /\ b \in DOMAIN old /\ a # b
          /\ Tied(swapped) => Tied(old)
          /\ ~ Tied(old) => InOrder(swapped) = [InOrder(old) EXCEPT ![i] = b, ![j] = a]
          /\ \A k, l \in 1 .. N : InOrder(old)[k] = InOrder(old)[l] => k = l
      BY <1>1, <2>4, <2>6, <3>1, <3>2, ExchangeIsSeen
    <3>4. seen = InOrder(old)
      BY <2>2
    <3>5. \A k, l \in 1 .. N : seen[k] = seen[l] => k = l
      BY <3>3, <3>4
    <3> QED BY <3>3, <3>5
  <2>8. position' = swapped
    <3>1. /\ request[r].read[1][1] = a /\ request[r].read[1][2] = old[b]
          /\ change[1] = b /\ change[2] = old[a]
      BY <2>3
    <3> HIDE DEF change, a, b
    <3>2. position = [k \in DOMAIN old |-> IF k = a THEN old[b] ELSE old[k]]
      BY <2>2, <3>1
    <3> QED BY <3>1, <3>2, <1>2, <2>7
  <2>9. Tied(position') => Tied(old)
    BY <2>7, <2>8
  <2>10. ~ Tied(old) => InOrder(position') = Exchanged(seen, asked.op, asked.arg)
    <3>1. Len(seen) = N /\ DOMAIN seen = 1 .. N
      <4> HIDE DEF N
      <4> QED BY <2>5
    <3>2. IndexIn(seen, a) \in 1 .. N /\ seen[IndexIn(seen, a)] = a
      <4> HIDE DEF N
      <4>1. seen[i] = a
        OBVIOUS
      <4> HIDE DEF a
      <4>2. Len(seen) \in Nat /\ i \in 1 .. Len(seen)
        BY <2>5, <2>6, <3>1
      <4>3. IndexIn(seen, a) \in 0 .. Len(seen) /\ IndexIn(seen, a) # 0
        BY <4>1, <4>2, SelectIndex
      <4>4. seen[IndexIn(seen, a)] = a
        BY <4>2, <4>3, SelectIndex
      <4> QED BY <3>1, <4>2, <4>3, <4>4
    <3>3. IndexIn(seen, a) = i
      BY <3>2, <2>6, <2>7
    <3>4. j = (IF asked.op = "up" THEN i - 1 ELSE i + 1) /\ asked.arg = a
      BY <2>3
    <3>5. Exchanged(seen, asked.op, a) = [seen EXCEPT ![i] = b, ![j] = a]
      <4> HIDE DEF N
      <4> QED BY <3>1, <3>3, <3>4, <2>6 DEF Exchanged
    <3> HIDE DEF a, b, swapped
    <3> QED BY <3>4, <3>5, <2>2, <2>7, <2>8
  <2>11. Tied(old) => Tied(position')
    <3>1. a = InOrder(old)[i] /\ b = InOrder(old)[j]
      BY <2>2
    <3> HIDE DEF swapped, a, b
    <3>2. swapped = [k \in DOMAIN old |-> IF k = a THEN old[b]
                                          ELSE IF k = b THEN old[a] ELSE old[k]]
      BY DEF swapped
    <3>3. Tied(old) => Tied(swapped)
      BY <1>1, <2>4, <2>6, <3>1, <3>2, ExchangeIsSeen
    <3> QED BY <3>3, <2>8
  <2>12. Kept(r)'
    <3>1. /\ Tied(position') \/ InOrder(position') = Exchanged(seen, asked.op, asked.arg)
          /\ asked.op \in {"up", "down"}
      BY <2>3, <2>10, <2>11
    <3>2. request'[r].asked = asked /\ request'[r].seen = seen
      BY <1>3, <1>4 DEF asked, seen
    <3> QED BY <3>1, <3>2 DEF Kept
  <2> QED BY <2>2, <2>9, <2>12
<1>10. new.alone => AloneKnows(r)'
  BY <1>3, <1>4, <1>9 DEF AloneKnows
<1>11. TiesComeFromMixing'
  BY <1>2, <1>8, <1>9 DEF TiesComeFromMixing
<1>12. OneDefault'
  BY <1>2 DEF PlaylistInv, OneDefault
<1>13. defaults' \subseteq lists' /\ lists' \subseteq 1 .. lastList' /\ lastList' \in Nat
  BY <1>2 DEF PlaylistInv, PlaylistTyped
<1> QED BY <1>2, <1>3, <1>6, <1>7, <1>10, <1>11, <1>12, <1>13, OneActs

\* What the three steps of the default have in common: no item and no read.
LEMMA DefaultStep ==
  ASSUME PlaylistInv, NEW r \in Requests, NEW step \in {"create", "mark", "answer"},
         request[r].step \in {"clear", "create", "mark"}, Goes(r, step),
         UNCHANGED <<position, lastItem, budget, mixed, reseeded>>,
         defaults' \subseteq lists', lists' \subseteq 1 .. lastList', lastList' \in Nat,
         step = "create" => request[r].asked.op = "create",
         step = "mark" => request[r].asked.op = "default",
         AloneKnows(r) /\ request[r].alone /\ request'[r].step = step
           /\ request'[r].asked = request[r].asked => AloneKnows(r)',
         OneDefault'
  PROVE  PlaylistInv'
<1> DEFINE new == [request[r] EXCEPT !.step = step]
<1>1. /\ request \in [Requests -> PlaylistRequests] /\ request[r] \in PlaylistRequests
      /\ lastItem \in Nat /\ Placed(position, lastItem)
  BY DEF PlaylistInv, PlaylistTyped
<1>2. request' = [request EXCEPT ![r] = new]
  BY <1>1 DEF Goes
<1>3. /\ new \in PlaylistRequests /\ new.step = step /\ new.read = request[r].read
      /\ new.alone = request[r].alone /\ new.asked = request[r].asked
  BY <1>1 DEF PlaylistRequests, Steps
<1> HIDE DEF new
<1>4. request'[r] = new
  BY <1>1, <1>2
<1>5. FitsButton(request[r])
  BY DEF PlaylistInv, StepsFit
<1>6. FitsTable(new, lastItem') /\ FitsButton(new)
  BY <1>3, <1>5 DEF FitsTable, FitsButton
<1>7. new.alone => AloneKnows(r)'
  BY <1>3, <1>4 DEF PlaylistInv, UnderWay
<1>8. TiesComeFromMixing'
  BY <1>2, TiesStay
<1>9. Placed(position', lastItem') /\ request[r].step # "idle"
  BY <1>1
<1> QED BY <1>2, <1>3, <1>6, <1>7, <1>8, <1>9, OneActs

LEMMA ClearDefaultsKeeps ==
  ASSUME PlaylistInv, NEW r \in Requests, ClearDefaults(r)
  PROVE  PlaylistInv'
<1> DEFINE step == IF request[r].asked.op = "create" THEN "create" ELSE "mark"
<1>1. /\ request[r].step = "clear" /\ defaults' = {} /\ Goes(r, step)
      /\ UNCHANGED <<position, lastItem, lists, lastList, budget, mixed, reseeded>>
  BY DEF ClearDefaults
<1>2. /\ step \in {"create", "mark"} /\ (step = "create" => request[r].asked.op = "create")
      /\ step = "mark" => request[r].asked.op = "default"
  BY <1>1 DEF PlaylistInv, StepsFit, FitsButton
<1> HIDE DEF step
<1>3. OneDefault'
  BY <1>1 DEF OneDefault
<1>4. AloneKnows(r) /\ request'[r].step = step /\ request'[r].asked = request[r].asked
        => AloneKnows(r)'
  BY <1>1, <1>2 DEF AloneKnows
<1>5. defaults' \subseteq lists' /\ lists' \subseteq 1 .. lastList' /\ lastList' \in Nat
  BY <1>1 DEF PlaylistInv, PlaylistTyped
<1> QED BY <1>1, <1>2, <1>3, <1>4, <1>5, DefaultStep

LEMMA CreatePlaylistKeeps ==
  ASSUME PlaylistInv, NEW r \in Requests, CreatePlaylist(r)
  PROVE  PlaylistInv'
<1>1. /\ request[r].step = "create" /\ lastList' = lastList + 1
      /\ lists' = lists \cup {lastList'} /\ defaults' = defaults \cup {lastList'}
      /\ Goes(r, "answer")
      /\ UNCHANGED <<position, lastItem, budget, mixed, reseeded>>
  BY DEF CreatePlaylist
<1>2. request[r].asked.op = "create" /\ r \in UnderWay
  BY <1>1 DEF PlaylistInv, StepsFit, FitsButton, UnderWay
<1>3. AloneKnows(r) => defaults' = {lastList'}
  BY <1>1 DEF AloneKnows
<1>4. OneDefault'
  <2>1. mixed \/ AloneKnows(r)
    BY <1>2 DEF PlaylistInv, AloneIsAlone
  <2> QED BY <1>1, <1>3, <2>1 DEF OneDefault
<1>5. AloneKnows(r) /\ request'[r].step = "answer" /\ request'[r].asked = request[r].asked
        => AloneKnows(r)'
  BY <1>2, <1>3 DEF AloneKnows, Kept
<1>6. defaults' \subseteq lists' /\ lists' \subseteq 1 .. lastList' /\ lastList' \in Nat
  BY <1>1 DEF PlaylistInv, PlaylistTyped
<1> QED BY <1>1, <1>4, <1>5, <1>6, DefaultStep

LEMMA SetDefaultKeeps ==
  ASSUME PlaylistInv, NEW r \in Requests, SetDefault(r)
  PROVE  PlaylistInv'
<1>1. /\ request[r].step = "mark"
      /\ defaults' = defaults \cup ({request[r].asked.arg} \cap lists)
      /\ Goes(r, "answer")
      /\ UNCHANGED <<position, lastItem, lists, lastList, budget, mixed, reseeded>>
  BY DEF SetDefault
<1>2. request[r].asked.op = "default" /\ r \in UnderWay
  BY <1>1 DEF PlaylistInv, StepsFit, FitsButton, UnderWay
<1>3. AloneKnows(r) => defaults' = {request[r].asked.arg}
  BY <1>1, <1>2 DEF AloneKnows
<1>4. OneDefault'
  <2>1. mixed \/ AloneKnows(r)
    BY <1>2 DEF PlaylistInv, AloneIsAlone
  <2> QED BY <1>1, <1>3, <2>1 DEF OneDefault
<1>5. AloneKnows(r) /\ request'[r].step = "answer" /\ request'[r].asked = request[r].asked
        => AloneKnows(r)'
  BY <1>2, <1>3 DEF AloneKnows, Kept
<1>6. defaults' \subseteq lists' /\ lists' \subseteq 1 .. lastList' /\ lastList' \in Nat
  BY <1>1 DEF PlaylistInv, PlaylistTyped
<1> QED BY <1>1, <1>4, <1>5, <1>6, DefaultStep

\* A request that ends leaves nobody who was alone.
LEMMA EndKeeps ==
  ASSUME PlaylistInv, NEW r \in Requests, request[r].step # "idle",
         request' = [request EXCEPT ![r] = NoRequest],
         (request[r].step = "answer" /\ mixed' = mixed) \/ mixed' = TRUE,
         UNCHANGED <<position, lastItem, lists, defaults, lastList, budget, reseeded>>
  PROVE  PlaylistInv'
<1>1. /\ request' \in [Requests -> PlaylistRequests] /\ request'[r] = NoRequest
      /\ \A q \in Requests : q # r => request'[q] = request[q]
  BY NoRequestTyped DEF PlaylistInv, PlaylistTyped
<1>2. UnderWay' \subseteq UnderWay \ {r} /\ r \in UnderWay /\ Inserters' \in SUBSET Inserters
  BY <1>1, NoRequestTyped DEF UnderWay, Inserters
<1>3. mixed => mixed'
  OBVIOUS
<1>4. \A q \in UnderWay' : q # r /\ request'[q] = request[q] /\ q \in UnderWay /\ ~ request[q].alone
  <2> TAKE q \in UnderWay'
  <2>1. q # r /\ q \in UnderWay /\ request'[q] = request[q]
    BY <1>1, <1>2 DEF UnderWay
  <2> QED BY <2>1, <1>2 DEF PlaylistInv, AloneIsAlone
<1>5. PlaylistTyped'
  BY <1>1 DEF PlaylistInv, PlaylistTyped
<1>6. ReadsFit' /\ StepsFit'
  BY <1>1, NoRequestTyped DEF PlaylistInv, ReadsFit, StepsFit
<1>7. ItemsCounted'
  <2>1. /\ IsFiniteSet(Inserters) /\ FirstItems <= lastItem
        /\ lastItem + Cardinality(Inserters) + budget <= FirstItems + Budget
    BY DEF PlaylistInv, ItemsCounted
  <2>2. /\ IsFiniteSet(Inserters') /\ Cardinality(Inserters') <= Cardinality(Inserters)
        /\ Cardinality(Inserters') \in Nat /\ Cardinality(Inserters) \in Nat
    BY <2>1, <1>2, FS_Subset, FS_CardinalityType
  <2>3. lastItem \in Nat /\ budget \in Int /\ FirstItems \in Nat /\ Budget \in Nat
    BY PlaylistBounds DEF PlaylistInv, PlaylistTyped
  <2> QED BY <2>1, <2>2, <2>3 DEF ItemsCounted
<1>8. AloneIsAlone' /\ \A q \in UnderWay' : request'[q].alone => AloneKnows(q)'
  BY <1>3, <1>4 DEF PlaylistInv, AloneIsAlone
<1>9. TiesComeFromMixing'
  BY <1>1 DEF PlaylistInv, TiesComeFromMixing
<1>10. OneDefault'
  BY <1>3 DEF PlaylistInv, OneDefault
<1> QED BY <1>5, <1>6, <1>7, <1>8, <1>9, <1>10 DEF PlaylistInv

LEMMA DisturbedTyped ==
  ASSUME PlaylistInv
  PROVE  /\ Disturbed \in [Requests -> PlaylistRequests]
         /\ \A q \in Requests :
              /\ Disturbed[q].step = request[q].step /\ Disturbed[q].asked = request[q].asked
              /\ Disturbed[q].read = request[q].read /\ Disturbed[q].seen = request[q].seen
              /\ q \in UnderWay => ~ Disturbed[q].alone
<1>1. request \in [Requests -> PlaylistRequests]
  BY DEF PlaylistInv, PlaylistTyped
<1>2. ASSUME NEW q \in Requests
      PROVE  /\ Disturbed[q] \in PlaylistRequests
             /\ Disturbed[q].step = request[q].step /\ Disturbed[q].asked = request[q].asked
             /\ Disturbed[q].read = request[q].read /\ Disturbed[q].seen = request[q].seen
             /\ q \in UnderWay => ~ Disturbed[q].alone
  <2>1. request[q] \in PlaylistRequests
    BY <1>1
  <2>2. Disturbed[q] = [request[q] EXCEPT !.alone = request[q].alone /\ q \notin UnderWay]
    BY DEF Disturbed
  <2>3. PICK b \in BOOLEAN : b = (request[q].alone /\ q \notin UnderWay)
    BY Zenon
  <2>4. Disturbed[q] = [request[q] EXCEPT !.alone = b]
    BY <2>2, <2>3
  <2> QED BY <2>1, <2>3, <2>4 DEF PlaylistRequests
<1>3. Disturbed = [q \in Requests |-> Disturbed[q]]
  BY DEF Disturbed
<1> QED BY <1>2, <1>3

\* A deletion: nobody is alone afterwards.
LEMMA DeletionKeeps ==
  ASSUME PlaylistInv, request' = Disturbed, mixed' = (mixed \/ UnderWay # {}),
         budget > 0, budget' = budget - 1, UNCHANGED <<lastItem, lastList, reseeded>>,
         Placed(position', lastItem), Tied(position') => Tied(position),
         lists' \subseteq lists, defaults' \subseteq lists', defaults' \subseteq defaults
  PROVE  PlaylistInv'
<1>1. /\ request' \in [Requests -> PlaylistRequests]
      /\ \A q \in Requests :
           /\ request'[q].step = request[q].step /\ request'[q].asked = request[q].asked
           /\ request'[q].read = request[q].read
           /\ q \in UnderWay => ~ request'[q].alone
  BY DisturbedTyped
<1>2. UnderWay' = UnderWay /\ Inserters' = Inserters
  BY <1>1 DEF UnderWay, Inserters
<1>3. PlaylistTyped'
  <2>1. mixed' \in BOOLEAN /\ budget' \in 0 .. Budget
    BY PlaylistBounds DEF PlaylistInv, PlaylistTyped
  <2> QED BY <1>1, <2>1 DEF PlaylistInv, PlaylistTyped
<1>4. ReadsFit' /\ StepsFit'
  BY <1>1 DEF PlaylistInv, ReadsFit, StepsFit, FitsTable, FitsButton
<1>5. ItemsCounted'
  <2>1. /\ IsFiniteSet(Inserters) /\ FirstItems <= lastItem
        /\ lastItem + Cardinality(Inserters) + budget <= FirstItems + Budget
    BY DEF PlaylistInv, ItemsCounted
  <2>2. Cardinality(Inserters) \in Nat
    BY <2>1, FS_CardinalityType
  <2>3. lastItem \in Nat /\ budget \in Int /\ FirstItems \in Nat /\ Budget \in Nat
    BY PlaylistBounds DEF PlaylistInv, PlaylistTyped
  <2> QED BY <1>2, <2>1, <2>2, <2>3 DEF ItemsCounted
<1>6. \A q \in UnderWay' : ~ request'[q].alone /\ mixed'
  BY <1>1, <1>2 DEF UnderWay
<1>7. AloneIsAlone' /\ \A q \in UnderWay' : request'[q].alone => AloneKnows(q)'
  BY <1>6 DEF AloneIsAlone
<1>8. TiesComeFromMixing'
  BY <1>1 DEF PlaylistInv, TiesComeFromMixing
<1>9. OneDefault'
  BY DEF PlaylistInv, OneDefault
<1> QED BY <1>3, <1>4, <1>5, <1>7, <1>8, <1>9 DEF PlaylistInv

LEMMA DeleteItemKeeps ==
  ASSUME PlaylistInv, NEW i, DeleteItem(i)
  PROVE  PlaylistInv'
<1>1. /\ position' = Restrict(position, DOMAIN position \ {i})
      /\ budget > 0 /\ budget' = budget - 1
      /\ mixed' = (mixed \/ UnderWay # {}) /\ request' = Disturbed
      /\ UNCHANGED <<lastItem, lists, defaults, lastList, reseeded>>
  BY DEF DeleteItem
<1>2. position' = [k \in DOMAIN position \ {i} |-> position[k]]
  BY <1>1 DEF Restrict
<1>3. Placed(position', lastItem) /\ (Tied(position') => Tied(position))
  BY <1>2 DEF PlaylistInv, PlaylistTyped, Placed, Tied
<1>4. defaults' \subseteq lists' /\ lists' \subseteq lists /\ defaults' \subseteq defaults
  BY <1>1 DEF PlaylistInv, PlaylistTyped
<1> QED BY <1>1, <1>3, <1>4, DeletionKeeps

LEMMA DeletePlaylistKeeps ==
  ASSUME PlaylistInv, NEW l, DeletePlaylist(l)
  PROVE  PlaylistInv'
<1>1. /\ lists' = lists \ {l} /\ defaults' = defaults \ {l}
      /\ budget > 0 /\ budget' = budget - 1
      /\ mixed' = (mixed \/ UnderWay # {}) /\ request' = Disturbed
      /\ UNCHANGED <<position, lastItem, lastList, reseeded>>
  BY DEF DeletePlaylist
<1>2. Placed(position', lastItem)
  BY <1>1 DEF PlaylistInv, PlaylistTyped
<1>3. defaults' \subseteq lists' /\ lists' \subseteq lists /\ defaults' \subseteq defaults
  BY <1>1 DEF PlaylistInv, PlaylistTyped
<1> QED BY <1>1, <1>2, <1>3, DeletionKeeps

LEMMA SeedAgainKeeps ==
  ASSUME PlaylistInv, SeedAgain
  PROVE  PlaylistInv'
<1>1. /\ UnderWay = {} /\ lastList' = lastList + 1
      /\ lists' = lists \cup {lastList'} /\ defaults' = defaults \cup {lastList'}
      /\ reseeded' = TRUE /\ position' = position /\ lastItem' = lastItem
      /\ request' = request /\ budget' = budget /\ mixed' = mixed
  BY DEF SeedAgain
<1>2. UnderWay' = {} /\ Inserters' = Inserters
  BY <1>1 DEF UnderWay, Inserters
<1>3. PlaylistTyped'
  BY <1>1 DEF PlaylistInv, PlaylistTyped
<1>4. ReadsFit' /\ StepsFit' /\ ItemsCounted'
  BY <1>1, <1>2 DEF PlaylistInv, ReadsFit, StepsFit, ItemsCounted
<1>5. TiesComeFromMixing'
  BY <1>1 DEF PlaylistInv, TiesComeFromMixing
<1>6. AloneIsAlone' /\ OneDefault' /\ \A q \in UnderWay' : request'[q].alone => AloneKnows(q)'
  BY <1>1, <1>2 DEF AloneIsAlone, OneDefault
<1> QED BY <1>3, <1>4, <1>5, <1>6 DEF PlaylistInv

LEMMA SendKeeps ==
  ASSUME PlaylistInv, NEW r \in Requests, NEW asked \in Buttons, Send(r, asked)
  PROVE  PlaylistInv'
<1> DEFINE alone == UnderWay = {}
           new   == [NoRequest EXCEPT !.step = FirstStep(asked), !.asked = asked,
                                      !.seen = InOrder(position), !.alone = alone]
<1>1. /\ budget > 0 /\ budget' = budget - 1 /\ mixed' = (mixed \/ UnderWay # {})
      /\ request' = [Disturbed EXCEPT ![r] = new]
      /\ UNCHANGED <<position, lastItem, lists, defaults, lastList, reseeded>>
  BY DEF Send
<1>2. request[r].step = "idle"
  <2>1. \E q \in Requests : request[q].step = "idle"
    BY DEF Send, UnderWay
  <2> QED BY <2>1 DEF Send, Free
<1>3. /\ request \in [Requests -> PlaylistRequests] /\ Placed(position, lastItem) /\ lastItem \in Nat
      /\ lists \subseteq 1 .. lastList /\ lastList \in Nat
  BY DEF PlaylistInv, PlaylistTyped
<1>4. /\ asked \in Asked /\ asked.op # "none"
      /\ asked.op \in {"up", "down"} => asked.arg \in DOMAIN position
      /\ asked.op = "default" => asked.arg \in lists
      /\ asked.op \in {"add", "create", "up", "down", "default"}
  <2>1. DOMAIN position \subseteq Nat /\ lists \subseteq Nat
    BY <1>3 DEF Placed
  <2>2. CASE asked \in [op : {"add", "create"}, arg : {0}]
    BY <2>2 DEF Asked
  <2>3. CASE asked \in [op : {"up", "down"}, arg : DOMAIN position]
    BY <2>1, <2>3 DEF Asked
  <2>4. CASE asked \in [op : {"default"}, arg : lists]
    BY <2>1, <2>4 DEF Asked
  <2> QED BY <2>2, <2>3, <2>4 DEF Buttons
<1>5. InOrder(position) \in Seq(Nat)
  <2> DEFINE N == Cardinality(DOMAIN position)  items == InOrder(position)
  <2>1. N \in Nat /\ items \in [1 .. N -> DOMAIN position]
    BY <1>3, PositionsOrder DEF Enumerates
  <2> HIDE DEF N, items
  <2>2. items \in [1 .. N -> Nat]
    BY <1>3, <2>1 DEF Placed
  <2> QED BY <2>1, <2>2 DEF items
<1>6. \/ asked.op = "add" /\ FirstStep(asked) = "max"
      \/ asked.op \in {"up", "down"} /\ FirstStep(asked) = "list"
      \/ asked.op \in {"create", "default"} /\ FirstStep(asked) = "clear"
  <2>1. CASE asked.op = "add"
    BY <2>1 DEF FirstStep
  <2>2. CASE asked.op \in {"up", "down"}
    BY <2>2 DEF FirstStep
  <2>3. CASE asked.op \in {"create", "default"}
    BY <2>3 DEF FirstStep
  <2> QED BY <2>1, <2>2, <2>3, <1>4
<1>7. /\ new \in PlaylistRequests /\ new.step = FirstStep(asked) /\ new.asked = asked
      /\ new.seen = InOrder(position) /\ (new.alone <=> UnderWay = {})
  <2>1. PICK b \in BOOLEAN : b = (UnderWay = {})
    BY Zenon
  <2>2. new = [NoRequest EXCEPT !.step = FirstStep(asked), !.asked = asked,
                                !.seen = InOrder(position), !.alone = b]
    BY <2>1
  <2> HIDE DEF new
  <2>3. FirstStep(asked) \in Steps
    BY <1>6 DEF Steps
  <2>4. << >> \in Seq(Int \cup (Int \X Int))
    OBVIOUS
  <2> DEFINE step == FirstStep(asked)  seen == InOrder(position)
  <2>5. step \in Steps /\ asked \in Asked /\ seen \in Seq(Nat)
    BY <2>3, <1>4, <1>5
  <2>6. new = [NoRequest EXCEPT !.step = step, !.asked = asked, !.seen = seen, !.alone = b]
    BY <2>2
  <2> HIDE DEF step, seen
  <2>7. new = [step |-> step, asked |-> asked, read |-> << >>, seen |-> seen, alone |-> b]
    BY <2>6 DEF NoRequest
  <2>8. new \in PlaylistRequests
    BY <2>4, <2>5, <2>7 DEF PlaylistRequests
  <2> QED BY <2>1, <2>7, <2>8 DEF step, seen
<1> HIDE DEF new
<1>8. /\ request' \in [Requests -> PlaylistRequests] /\ request'[r] = new
      /\ \A q \in Requests : q # r =>
           /\ request'[q].step = request[q].step /\ request'[q].asked = request[q].asked
           /\ request'[q].read = request[q].read
           /\ q \in UnderWay => ~ request'[q].alone
  BY <1>1, <1>7, DisturbedTyped
<1>9. UnderWay' = UnderWay \cup {r} /\ r \notin UnderWay
  BY <1>2, <1>6, <1>7, <1>8 DEF UnderWay
<1>10. PlaylistTyped'
  <2>1. mixed' \in BOOLEAN /\ budget' \in 0 .. Budget
    BY <1>1, PlaylistBounds DEF PlaylistInv, PlaylistTyped
  <2> QED BY <1>1, <1>8, <2>1 DEF PlaylistInv, PlaylistTyped
<1>11. ReadsFit' /\ StepsFit'
  <2>1. ASSUME NEW q \in Requests
        PROVE  FitsTable(request'[q], lastItem') /\ FitsButton(request'[q])
    <3>1. CASE q = r
      BY <3>1, <1>6, <1>7, <1>8 DEF FitsTable, FitsButton
    <3>2. CASE q # r
      <4>1. FitsTable(request[q], lastItem) /\ FitsButton(request[q])
        BY DEF PlaylistInv, ReadsFit, StepsFit
      <4> QED BY <3>2, <4>1, <1>1, <1>8 DEF FitsTable, FitsButton
    <3> QED BY <3>1, <3>2
  <2> QED BY <2>1 DEF ReadsFit, StepsFit
<1>12. ItemsCounted'
  <2>1. /\ IsFiniteSet(Inserters) /\ FirstItems <= lastItem
        /\ lastItem + Cardinality(Inserters) + budget <= FirstItems + Budget
    BY DEF PlaylistInv, ItemsCounted
  <2>2. Inserters' \in SUBSET (Inserters \cup {r}) /\ r \notin Inserters
    BY <1>2, <1>8 DEF Inserters
  <2>3. IsFiniteSet(Inserters \cup {r}) /\ Cardinality(Inserters \cup {r}) = Cardinality(Inserters) + 1
    BY <2>1, <2>2, FS_AddElement
  <2>4. IsFiniteSet(Inserters') /\ Cardinality(Inserters') <= Cardinality(Inserters \cup {r})
    BY <2>2, <2>3, FS_Subset
  <2>5. Cardinality(Inserters') \in Nat /\ Cardinality(Inserters) \in Nat
    BY <2>1, <2>4, FS_CardinalityType
  <2>6. lastItem \in Nat /\ budget \in Int /\ FirstItems \in Nat /\ Budget \in Nat
    BY PlaylistBounds DEF PlaylistInv, PlaylistTyped
  <2> QED BY <2>1, <2>3, <2>4, <2>5, <2>6, <1>1 DEF ItemsCounted
<1>13. \A q \in UnderWay' : request'[q].alone => q = r /\ UnderWay = {}
  BY <1>7, <1>8, <1>9 DEF UnderWay
<1>14. AloneIsAlone'
  <2>1. \A q \in UnderWay' : request'[q].alone => UnderWay' = {q}
    BY <1>9, <1>13
  <2>2. mixed' \/ \A q \in UnderWay' : request'[q].alone
    BY <1>1, <1>7, <1>8, <1>9
  <2> QED BY <2>1, <2>2 DEF AloneIsAlone
<1>15. AloneKnows(r)'
  <2>1. /\ request'[r].step = FirstStep(asked) /\ request'[r].asked = asked
        /\ request'[r].seen = InOrder(position')
    BY <1>1, <1>7, <1>8
  <2>2. request'[r].step = "list" => request'[r].asked.arg \in DOMAIN position'
    BY <2>1, <1>1, <1>4, <1>6
  <2>3. request'[r].step = "clear" /\ request'[r].asked.op = "default"
          => request'[r].asked.arg \in lists'
    BY <2>1, <1>1, <1>4, <1>6
  <2>4. request'[r].step \in {"max", "list", "clear"}
    BY <2>1, <1>6
  <2> QED BY <2>1, <2>2, <2>3, <2>4 DEF AloneKnows
<1>16. TiesComeFromMixing'
  BY <1>1, <1>2, <1>8 DEF PlaylistInv, TiesComeFromMixing
<1>17. OneDefault'
  BY <1>1 DEF PlaylistInv, OneDefault
<1> QED BY <1>10, <1>11, <1>12, <1>13, <1>14, <1>15, <1>16, <1>17 DEF PlaylistInv

LEMMA PlaylistStep ==
  ASSUME PlaylistInv, PlaylistNext
  PROVE  PlaylistInv'
<1>1. ASSUME NEW r \in Requests, Answered(r) \/ ClientLeaves(r)
      PROVE  PlaylistInv'
  BY <1>1, EndKeeps DEF Answered, ClientLeaves
<1> QED BY <1>1, SendKeeps, ReadMaxKeeps, InsertKeeps, ReadItemsKeeps, PlaceFirstKeeps,
           PlaceSecondKeeps, ClearDefaultsKeeps, CreatePlaylistKeeps, SetDefaultKeeps,
           DeleteItemKeeps, DeletePlaylistKeeps, SeedAgainKeeps DEF PlaylistNext

\* What the invariant says of the two properties.
LEMMA PlaylistInvImplies ==
  ASSUME PlaylistInv
  PROVE  PlaylistTypeOK /\ AloneAsAsked
<1>1. PlaylistTypeOK
  <2>1. DOMAIN position \subseteq 1 .. lastItem /\ Range(position) \subseteq Nat
    BY DEF PlaylistInv, PlaylistTyped, Placed, Range
  <2>2. lastItem \in FirstItems .. FirstItems + Budget
    <3>1. Cardinality(Inserters) \in Nat
      BY FS_CardinalityType DEF PlaylistInv, ItemsCounted
    <3> QED BY <3>1, PlaylistBounds DEF PlaylistInv, PlaylistTyped, ItemsCounted
  <2>3. \A r \in Requests : request[r].step \in Steps /\ request[r].asked \in Asked
    BY DEF PlaylistInv, PlaylistTyped, PlaylistRequests
  <2> QED BY <2>1, <2>2, <2>3 DEF PlaylistInv, PlaylistTyped, PlaylistTypeOK
<1>2. \A r \in Requests : request[r].step = "answer" /\ request[r].alone => Kept(r)
  BY DEF PlaylistInv, AloneKnows, UnderWay
<1>3. Cardinality(defaults) > 1 => mixed \/ reseeded
  <2> SUFFICES ASSUME ~ mixed, ~ reseeded PROVE ~ (Cardinality(defaults) > 1)
    OBVIOUS
  <2>1. \A c, d \in defaults : c = d
    BY DEF PlaylistInv, OneDefault
  <2>2. CASE defaults = {}
    BY <2>2, FS_EmptySet
  <2>3. CASE defaults # {}
    <3>1. PICK c : defaults = {c}
      BY <2>1, <2>3
    <3>2. Cardinality(defaults) = 1
      BY <3>1, FS_Singleton
    <3> QED BY <3>2
  <2> QED BY <2>2, <2>3
<1> QED BY <1>1, <1>2, <1>3 DEF PlaylistInv, TiesComeFromMixing, AloneAsAsked

-----------------------------------------------------------------------------
(* The invariant of the layout editor. *)

\* A button splits a pane in two, and of two panes one that is removed leaves the
\* other: every split has two children.
Path  == Seq({1, 2})
Nodes == [weight : Nat \ {0}, widget : Widgets \cup {Empty}]

Binary(t) ==
  /\ IsFiniteSet(DOMAIN t) /\ DOMAIN t \subseteq Path /\ << >> \in DOMAIN t
  /\ \A q \in DOMAIN t : q # << >> =>
       Front(q) \in DOMAIN t /\ Append(Front(q), 3 - Last(q)) \in DOMAIN t
  /\ t \in [DOMAIN t -> Nodes]

Wide(weights) == \A i \in DOMAIN weights : weights[i] \in Nat \ {0}

PostTyped(q) ==
  /\ q.op \in {"split", "remove", "widget", "weights"} /\ q.path \in Path
  /\ q.step \in {"sent", "loaded", "saved"}
  /\ q.step # "sent" => Binary(q.tree)
  /\ q.op = "widget" => q.arg[1] \in Widgets \cup {Empty}
  /\ q.op = "weights" => Wide(q.arg)

DragTyped(d) ==
  d.held => /\ d.path \in Path /\ Wide(d.weights)
            /\ {d.divider, d.divider + 1} \subseteq DOMAIN d.weights

\* What a post may rely on whose page nobody has disturbed.
FreshKnows(r) ==
  LET q == edit[r]
      here == page[q.by]
  IN /\ q.step = "sent" /\ q.op = "weights" =>
          here = SetWeights(stored, q.path, q.arg) /\ q.wish = Panes(stored)
     /\ q.step = "sent" /\ q.op # "weights" =>
          /\ here = stored /\ IsLeaf(stored, q.path) /\ (q.op = "remove" => q.path # << >>)
          /\ q.wish = Wish(stored, q.op, q.path, q.arg)
     /\ q.step = "loaded" => Panes(q.tree) = q.wish /\ (q.op = "weights" => here = q.tree)
     /\ q.step = "saved" =>
          /\ Panes(stored) = q.wish
          /\ IF q.op = "weights" THEN here = stored ELSE q.tree = stored

LayoutTyped ==
  /\ Binary(stored) /\ page = [e \in Editors |-> page[e]]
  /\ \A e \in Editors : Binary(page[e])
  /\ drag = [e \in Editors |-> drag[e]] /\ \A e \in Editors : DragTyped(drag[e])
  /\ edit = [r \in Posts |-> edit[r]]
  /\ \A r \in Posts : edit[r].step = "idle" \/ PostTyped(edit[r])
  /\ clicks \in [Editors -> Nat] /\ \A e \in Editors : clicks[e] <= MaxClicks[e]
  /\ fresh \subseteq Editors

\* A page that can be trusted shows what is stored, or has the one request under way.
FreshShows == Posted = {} => \A e \in fresh : page[e] = stored
FreshAlone == \A r \in Posted, e \in fresh : Posted = {r} /\ edit[r].by = e /\ FreshKnows(r)

LayoutInv == LayoutTyped /\ FreshShows /\ FreshAlone

-----------------------------------------------------------------------------
(* Paths. *)

LEMMA PathEnds ==
  ASSUME NEW p \in Path, p # << >>
  PROVE  /\ Len(p) \in Nat \ {0} /\ Last(p) \in {1, 2} /\ Last(p) = p[Len(p)]
         /\ Front(p) \in Path /\ Len(Front(p)) = Len(p) - 1
         /\ \A k \in 1 .. Len(p) - 1 : Front(p)[k] = p[k]
         /\ p = Append(Front(p), Last(p))
BY FrontAndLast DEF Path

LEMMA PathAppend ==
  ASSUME NEW q \in Path, NEW c \in {1, 2}
  PROVE  /\ Append(q, c) \in Path /\ Append(q, c) # << >> /\ Len(Append(q, c)) = Len(q) + 1
         /\ \A k \in 1 .. Len(q) : Append(q, c)[k] = q[k]
         /\ Append(q, c)[Len(q) + 1] = c
         /\ Front(Append(q, c)) = q /\ Last(Append(q, c)) = c
BY FrontOfAppend DEF Path

LEMMA PathEqual ==
  ASSUME NEW p \in Path, NEW q \in Path, Len(p) = Len(q), \A k \in 1 .. Len(p) : p[k] = q[k]
  PROVE  p = q
BY SeqEqual DEF Path

LEMMA PathElements ==
  ASSUME NEW p \in Path
  PROVE  Len(p) \in Nat /\ DOMAIN p = 1 .. Len(p) /\ \A k \in 1 .. Len(p) : p[k] \in {1, 2}
BY LenProperties, ElementOfSeq DEF Path

LEMMA PathPrefix ==
  ASSUME NEW p \in Path, NEW q \in Path
  PROVE  IsPrefix(p, q) <=> Len(p) <= Len(q) /\ \A k \in 1 .. Len(p) : p[k] = q[k]
BY PrefixByElement DEF Path

\* A sibling: every split has two children.
LEMMA Kin ==
  ASSUME NEW t, Binary(t), NEW q \in Path, NEW c \in {1, 2}, Append(q, c) \in DOMAIN t
  PROVE  q \in DOMAIN t /\ Append(q, 1) \in DOMAIN t /\ Append(q, 2) \in DOMAIN t
<1>1. Append(q, c) # << >> /\ Front(Append(q, c)) = q /\ Last(Append(q, c)) = c
  BY PathAppend
<1>2. q \in DOMAIN t /\ Append(q, 3 - c) \in DOMAIN t
  BY <1>1 DEF Binary
<1>3. CASE c = 1
  BY <1>2, <1>3
<1>4. CASE c = 2
  BY <1>2, <1>4
<1> QED BY <1>2, <1>3, <1>4

LEMMA LeafOfTwo ==
  ASSUME NEW t, Binary(t), NEW p \in Path, IsLeaf(t, p), NEW c \in {1, 2}
  PROVE  Append(p, c) \notin DOMAIN t
BY Kin DEF IsLeaf

\* Above every node there are nodes: of the paths that are cut short and lead to
\* none, one would be the longest.
LEMMA NodesAbove ==
  ASSUME NEW t, Binary(t), NEW q \in DOMAIN t, NEW n \in 0 .. Len(q)
  PROVE  SubSeq(q, 1, n) \in DOMAIN t
<1> DEFINE cut(k) == SubSeq(q, 1, k)
           T == {j \in 0 .. Len(q) : cut(Len(q) - j) \notin DOMAIN t}
<1>1. q \in Path /\ Len(q) \in Nat
  BY PathElements DEF Binary
<1>2. cut(Len(q)) = q
  BY <1>1, SubSeqFull DEF Path
<1>3. ASSUME NEW k \in 1 .. Len(q), cut(k) \in DOMAIN t
      PROVE  cut(k - 1) \in DOMAIN t
  <2>1. \A i \in 1 .. Len(q) : q[i] \in {1, 2}
    BY <1>1, PathElements
  <2>2. /\ cut(k) \in Path /\ Len(cut(k)) = k /\ \A i \in 1 .. k : cut(k)[i] = q[i]
    <3>1. 1 \in Int /\ k \in Int /\ \A i \in 1 .. k : q[i] \in {1, 2}
      BY <1>1, <2>1
    <3>2. /\ cut(k) \in Seq({1, 2}) /\ Len(cut(k)) = IF 1 <= k THEN k - 1 + 1 ELSE 0
          /\ \A i \in 1 .. k - 1 + 1 : cut(k)[i] = q[1 + i - 1]
      BY <3>1, SubSeqProperties
    <3> HIDE DEF cut
    <3> QED BY <3>2 DEF Path
  <2>3. /\ cut(k - 1) \in Path /\ Len(cut(k - 1)) = k - 1
        /\ \A i \in 1 .. k - 1 : cut(k - 1)[i] = q[i]
    <3> DEFINE m == k - 1
    <3>1. 1 \in Int /\ m \in Int /\ m \in Nat /\ \A i \in 1 .. m : q[i] \in {1, 2}
      BY <1>1, <2>1
    <3> HIDE DEF m
    <3>2. /\ cut(m) \in Seq({1, 2}) /\ Len(cut(m)) = IF 1 <= m THEN m - 1 + 1 ELSE 0
          /\ \A i \in 1 .. m - 1 + 1 : cut(m)[i] = q[1 + i - 1]
      BY <3>1, SubSeqProperties
    <3> HIDE DEF cut
    <3>3. cut(m) \in Path /\ Len(cut(m)) = m /\ \A i \in 1 .. m : cut(m)[i] = q[i]
      BY <3>1, <3>2 DEF Path
    <3> QED BY <3>3 DEF m
  <2> HIDE DEF cut
  <2>4. cut(k) # << >>
    BY <2>2
  <2>5. Front(cut(k)) = cut(k - 1)
    <3>1. /\ Front(cut(k)) \in Path /\ Len(Front(cut(k))) = Len(cut(k)) - 1
          /\ \A i \in 1 .. Len(cut(k)) - 1 : Front(cut(k))[i] = cut(k)[i]
      BY <2>2, <2>4, PathEnds
    <3>2. \A i \in 1 .. k - 1 : Front(cut(k))[i] = cut(k - 1)[i]
      BY <2>2, <2>3, <3>1
    <3>3. Len(Front(cut(k))) = Len(cut(k - 1)) /\ Len(Front(cut(k))) = k - 1
      BY <2>2, <2>3, <3>1
    <3> QED BY <2>3, <3>1, <3>2, <3>3, PathEqual
  <2> QED BY <1>3, <2>4, <2>5 DEF Binary
<1>4. T = {}
  <2> SUFFICES ASSUME T # {} PROVE FALSE
    OBVIOUS
  <2> HIDE DEF cut
  <2>1. T \in SUBSET Nat
    BY <1>1
  <2>2. PICK j \in T : \A i \in T : j <= i
    <3> HIDE DEF T
    <3> QED BY <2>1, LeastNatural
  <2>3. j \in 0 .. Len(q) /\ j # 0
    BY <1>1, <1>2
  <2>4. cut(Len(q) - (j - 1)) \in DOMAIN t
    <3>1. j - 1 \in 0 .. Len(q) /\ ~ (j <= j - 1)
      BY <1>1, <2>3
    <3> QED BY <2>2, <3>1
  <2>5. Len(q) - (j - 1) \in 1 .. Len(q) /\ Len(q) - (j - 1) - 1 = Len(q) - j
    BY <1>1, <2>3
  <2>6. cut(Len(q) - j) \in DOMAIN t
    BY <1>3, <2>4, <2>5
  <2> QED BY <2>6
<1>5. cut(n) \in DOMAIN t
  <2> HIDE DEF cut
  <2>1. Len(q) - n \in 0 .. Len(q) /\ Len(q) - (Len(q) - n) = n
    BY <1>1
  <2> QED BY <1>4, <2>1
<1> QED BY <1>5

\* Nothing lies under a leaf.
LEMMA LeafIsEnd ==
  ASSUME NEW t, Binary(t), NEW p \in DOMAIN t, IsLeaf(t, p), NEW q \in DOMAIN t,
         Len(p) <= Len(q), \A k \in 1 .. Len(p) : p[k] = q[k]
  PROVE  q = p
<1>1. /\ p \in Path /\ q \in Path /\ Len(p) \in Nat /\ Len(q) \in Nat
      /\ \A k \in 1 .. Len(q) : q[k] \in {1, 2}
  BY PathElements DEF Binary
<1>2. CASE Len(p) = Len(q)
  BY <1>1, <1>2, PathEqual
<1>3. CASE Len(p) < Len(q)
  <2> DEFINE n == Len(p) + 1  s == SubSeq(q, 1, n)  c == q[n]
  <2>1. n \in 1 .. Len(q) /\ c \in {1, 2}
    BY <1>1, <1>3
  <2>2. s \in DOMAIN t /\ s \in Path
    BY <2>1, NodesAbove DEF Binary
  <2>3. Len(s) = n /\ \A i \in 1 .. n : s[i] = q[i]
    <3>1. 1 \in Int /\ n \in Int /\ \A i \in 1 .. n : q[i] \in {1, 2}
      BY <1>1, <2>1
    <3> HIDE DEF n
    <3>2. /\ Len(s) = IF 1 <= n THEN n - 1 + 1 ELSE 0
          /\ \A i \in 1 .. n - 1 + 1 : s[i] = q[1 + i - 1]
      BY <3>1, SubSeqProperties
    <3> HIDE DEF s
    <3> QED BY <2>1, <3>1, <3>2
  <2> HIDE DEF s
  <2>4. s = Append(p, c)
    <3>1. /\ Append(p, c) \in Path /\ Len(Append(p, c)) = n
          /\ \A k \in 1 .. Len(p) : Append(p, c)[k] = p[k]
          /\ Append(p, c)[n] = c
      BY <1>1, <2>1, PathAppend
    <3>2. \A k \in 1 .. n : s[k] = Append(p, c)[k]
      <4> TAKE k \in 1 .. n
      <4>1. CASE k = n
        BY <4>1, <2>3, <3>1
      <4>2. CASE k # n
        <5>1. k \in 1 .. Len(p)
          BY <4>2, <1>1
        <5>2. s[k] = q[k]
          BY <2>3
        <5> QED BY <5>1, <5>2, <3>1
      <4> QED BY <4>1, <4>2
    <3> HIDE DEF n, c
    <3> QED BY <2>2, <2>3, <3>1, <3>2, PathEqual
  <2> QED BY <1>1, <2>1, <2>2, <2>4, LeafOfTwo
<1> QED BY <1>1, <1>2, <1>3

-----------------------------------------------------------------------------
(* The row of panes. *)

LEMMA PrecedesByElement ==
  ASSUME NEW p \in Path, NEW q \in Path
  PROVE  Precedes(p, q) <=> \E k \in 1 .. Len(p) :
           k <= Len(q) /\ p[k] < q[k] /\ \A j \in 1 .. k - 1 : p[j] = q[j]
<1>1. /\ Len(p) \in Nat /\ DOMAIN p = 1 .. Len(p)
      /\ Len(q) \in Nat /\ DOMAIN q = 1 .. Len(q)
  BY PathElements
<1> QED BY <1>1 DEF Precedes

\* Leaves are ordered by where their paths part.
LEMMA LeavesInOrder ==
  ASSUME NEW t, Binary(t)
  PROVE  /\ IsFiniteSet(Leaves(t)) /\ Leaves(t) \subseteq DOMAIN t /\ Leaves(t) \subseteq Path
         /\ \A p, q \in Leaves(t) : <<p, q>> \in Reading(Leaves(t)) <=> Precedes(p, q)
         /\ OrderOn(Reading(Leaves(t)), Leaves(t))
<1> DEFINE L == Leaves(t)
<1>1. IsFiniteSet(L) /\ L \subseteq DOMAIN t /\ L \subseteq Path
  <2>1. L \in SUBSET DOMAIN t
    BY DEF Leaves
  <2> QED BY <2>1, FS_Subset DEF Binary
<1>2. \A p, q \in L : <<p, q>> \in Reading(L) <=> Precedes(p, q)
  BY DEF Reading
<1>3. \A p \in L : Len(p) \in Nat /\ \A k \in 1 .. Len(p) : p[k] \in {1, 2}
  BY <1>1, PathElements
<1>4. ASSUME NEW p \in L, NEW q \in L, Precedes(p, q) PROVE ~ Precedes(q, p)
  <2> SUFFICES ASSUME Precedes(q, p) PROVE FALSE
    OBVIOUS
  <2> HIDE DEF L
  <2>1. PICK k \in 1 .. Len(p) :
          k <= Len(q) /\ p[k] < q[k] /\ \A j \in 1 .. k - 1 : p[j] = q[j]
    BY <1>1, <1>4, PrecedesByElement
  <2>2. PICK l \in 1 .. Len(q) :
          l <= Len(p) /\ q[l] < p[l] /\ \A j \in 1 .. l - 1 : q[j] = p[j]
    BY <1>1, PrecedesByElement
  <2>3. k \in 1 .. Len(q) /\ l \in 1 .. Len(p) /\ k \in Int /\ l \in Int
    BY <1>3, <2>1, <2>2
  <2>4. p[k] \in Int /\ q[k] \in Int /\ p[l] \in Int /\ q[l] \in Int
    BY <1>3, <2>3
  <2>5. CASE k < l
    <3>1. k \in 1 .. l - 1
      BY <2>3, <2>5
    <3> QED BY <2>1, <2>2, <2>4, <3>1
  <2>6. CASE l < k
    <3>1. l \in 1 .. k - 1
      BY <2>3, <2>6
    <3> QED BY <2>1, <2>2, <2>4, <3>1
  <2>7. CASE k = l
    BY <2>1, <2>2, <2>4, <2>7
  <2> QED BY <2>3, <2>5, <2>6, <2>7
<1>5. ASSUME NEW p \in L, NEW q \in L, NEW r \in L, Precedes(p, q), Precedes(q, r)
      PROVE  Precedes(p, r)
  <2> HIDE DEF L
  <2>1. PICK k \in 1 .. Len(p) :
          k <= Len(q) /\ p[k] < q[k] /\ \A j \in 1 .. k - 1 : p[j] = q[j]
    BY <1>1, <1>5, PrecedesByElement
  <2>2. PICK l \in 1 .. Len(q) :
          l <= Len(r) /\ q[l] < r[l] /\ \A j \in 1 .. l - 1 : q[j] = r[j]
    BY <1>1, <1>5, PrecedesByElement
  <2>3. /\ k \in Int /\ l \in Int /\ Len(p) \in Nat /\ Len(q) \in Nat /\ Len(r) \in Nat
        /\ k \in 1 .. Len(q) /\ l \in 1 .. Len(r)
    BY <1>3, <2>1, <2>2
  <2>4. \E m \in 1 .. Len(p) :
          m <= Len(r) /\ p[m] < r[m] /\ \A j \in 1 .. m - 1 : p[j] = r[j]
    <3>1. CASE k < l
      <4>1. q[k] = r[k] /\ k <= Len(r) /\ p[k] < r[k]
        BY <2>1, <2>2, <2>3, <3>1
      <4>2. \A j \in 1 .. k - 1 : p[j] = r[j]
        <5> TAKE j \in 1 .. k - 1
        <5>1. j \in 1 .. l - 1
          BY <2>3, <3>1
        <5> QED BY <2>1, <2>2, <5>1
      <4> QED BY <4>1, <4>2
    <3>2. CASE l < k
      <4>1. p[l] = q[l] /\ l \in 1 .. Len(p) /\ p[l] < r[l] /\ l <= Len(r)
        BY <2>1, <2>2, <2>3, <3>2
      <4>2. \A j \in 1 .. l - 1 : p[j] = r[j]
        <5> TAKE j \in 1 .. l - 1
        <5>1. j \in 1 .. k - 1
          BY <2>3, <3>2
        <5> QED BY <2>1, <2>2, <5>1
      <4> QED BY <4>1, <4>2
    <3>3. CASE k = l
      <4>1. p[k] \in Int /\ q[k] \in Int /\ r[k] \in Int
        BY <1>3, <2>1, <2>2, <2>3, <3>3
      <4>2. p[k] < r[k] /\ k <= Len(r) /\ \A j \in 1 .. k - 1 : p[j] = r[j]
        BY <2>1, <2>2, <3>3, <4>1
      <4> QED BY <4>2
    <3> QED BY <2>3, <3>1, <3>2, <3>3
  <2> QED BY <2>4, <1>1, PrecedesByElement
<1>6. ASSUME NEW p \in L, NEW q \in L, p # q PROVE Precedes(p, q) \/ Precedes(q, p)
  <2> DEFINE T == {k \in 1 .. Len(p) : k <= Len(q) /\ p[k] # q[k]}
  <2>1. /\ p \in DOMAIN t /\ q \in DOMAIN t /\ IsLeaf(t, p) /\ IsLeaf(t, q)
        /\ p \in Path /\ q \in Path
    BY <1>1 DEF Leaves
  <2>2. Len(p) \in Nat /\ Len(q) \in Nat
    BY <1>3
  <2>3. T # {}
    <3> SUFFICES ASSUME T = {} PROVE FALSE
      OBVIOUS
    <3>1. \A k \in 1 .. Len(p) : k <= Len(q) => p[k] = q[k]
      OBVIOUS
    <3> HIDE DEF T, L
    <3>2. CASE Len(p) <= Len(q)
      <4>1. \A k \in 1 .. Len(p) : p[k] = q[k]
        BY <2>2, <3>1, <3>2
      <4> QED BY <1>6, <2>1, <3>2, <4>1, LeafIsEnd
    <3>3. CASE Len(q) <= Len(p)
      <4>1. \A k \in 1 .. Len(q) : q[k] = p[k]
        BY <2>2, <3>1, <3>3
      <4> QED BY <1>6, <2>1, <3>3, <4>1, LeafIsEnd
    <3> QED BY <2>2, <3>2, <3>3
  <2>4. PICK k \in T : \A j \in T : k <= j
    <3>1. T \in SUBSET Nat
      BY <2>2
    <3> HIDE DEF T
    <3> QED BY <2>3, <3>1, LeastNatural
  <2>5. k \in 1 .. Len(p) /\ k <= Len(q) /\ p[k] # q[k]
    OBVIOUS
  <2>6. \A j \in 1 .. k - 1 : p[j] = q[j]
    <3> TAKE j \in 1 .. k - 1
    <3>1. j \in 1 .. Len(p) /\ j <= Len(q) /\ ~ (k <= j)
      BY <2>2, <2>5
    <3>2. j \notin T
      BY <2>4, <3>1
    <3> QED BY <3>1, <3>2
  <2>7. p[k] \in Int /\ q[k] \in Int /\ k \in 1 .. Len(q)
    BY <1>3, <2>2, <2>5
  <2> HIDE DEF T, L
  <2>8. CASE p[k] < q[k]
    BY <2>1, <2>5, <2>6, <2>8, PrecedesByElement
  <2>9. CASE q[k] < p[k]
    <3>1. k <= Len(p) /\ \A j \in 1 .. k - 1 : q[j] = p[j]
      BY <2>2, <2>5, <2>6
    <3> QED BY <2>1, <2>7, <2>9, <3>1, PrecedesByElement
  <2> QED BY <2>5, <2>7, <2>8, <2>9
<1>7. OrderOn(Reading(L), L)
  <2> HIDE DEF L
  <2> QED BY <1>2, <1>4, <1>5, <1>6 DEF OrderOn
<1> QED BY <1>1, <1>2, <1>7

Row(t) == Sorted(Leaves(t), Reading(Leaves(t)))

LEMMA RowOfLeaves ==
  ASSUME NEW t, Binary(t)
  PROVE  /\ Cardinality(Leaves(t)) \in Nat
         /\ Row(t) \in [1 .. Cardinality(Leaves(t)) -> Leaves(t)]
         /\ \A p \in Leaves(t) : \E i \in 1 .. Cardinality(Leaves(t)) : Row(t)[i] = p
         /\ \A i, j \in 1 .. Cardinality(Leaves(t)) : i < j => Precedes(Row(t)[i], Row(t)[j])
         /\ \A i \in 1 .. Cardinality(Leaves(t)) : Before(t, Row(t)[i]) = i - 1
         /\ \A i, j \in 1 .. Cardinality(Leaves(t)) : Row(t)[i] = Row(t)[j] => i = j
         /\ Panes(t) = [k \in 1 .. Cardinality(Leaves(t)) |-> t[Row(t)[k]].widget]
         /\ Panes(t) \in Seq(Widgets \cup {Empty}) /\ Len(Panes(t)) = Cardinality(Leaves(t))
<1> DEFINE L == Leaves(t)  R == Reading(L)  n == Cardinality(L)  order == Row(t)
<1>1. /\ IsFiniteSet(L) /\ L \subseteq DOMAIN t /\ OrderOn(R, L)
      /\ \A p, q \in L : <<p, q>> \in R <=> Precedes(p, q)
  BY LeavesInOrder
<1>2. n \in Nat
  BY <1>1, FS_CardinalityType
<1>3. Enumerates(order, n, L, R)
  <2> HIDE DEF L, R, n
  <2>1. Enumerates(Sorted(L, R), Cardinality(L), L, R)
    BY <1>1, SortedEnumerates
  <2> QED BY <2>1 DEF Row, L, R, n
<1>4. \A i \in 1 .. n : Rank(L, R, order[i]) = i - 1
  <2>1. \A p, q \in L : <<p, q>> \in R => <<q, p>> \notin R
    BY <1>1 DEF OrderOn
  <2> HIDE DEF L, R, n, order
  <2> QED BY <1>2, <1>3, <2>1, EnumerationIsSorted
<1>5. /\ order \in [1 .. n -> L] /\ \A p \in L : \E i \in 1 .. n : order[i] = p
      /\ \A i, j \in 1 .. n : i < j => <<order[i], order[j]>> \in R
  <2> HIDE DEF L, R, n, order
  <2> QED BY <1>3 DEF Enumerates
<1>6. \A i \in 1 .. n : Before(t, order[i]) = i - 1
  <2>1. \A p : Before(t, p) = Rank(L, R, p)
    BY DEF Before
  <2> HIDE DEF L, R, n, order
  <2> QED BY <1>4, <2>1
<1>7. \A i, j \in 1 .. n : order[i] = order[j] => i = j
  <2> HIDE DEF L, R, n, order
  <2> TAKE i, j \in 1 .. n
  <2> HAVE order[i] = order[j]
  <2>1. i - 1 = j - 1
    BY <1>6
  <2> QED BY <2>1
<1>8. Panes(t) = [k \in 1 .. n |-> t[order[k]].widget]
  <2>1. DOMAIN order = 1 .. n
    <3> HIDE DEF L, R, n, order
    <3> QED BY <1>5
  <2>2. Panes(t) = [k \in DOMAIN order |-> t[order[k]].widget]
    BY DEF Panes, Row
  <2> HIDE DEF n, order
  <2> QED BY <2>1, <2>2
<1>9. Panes(t) \in Seq(Widgets \cup {Empty}) /\ Len(Panes(t)) = n
  <2>1. ASSUME NEW k \in 1 .. n PROVE t[order[k]].widget \in Widgets \cup {Empty}
    <3>1. order[k] \in DOMAIN t
      <4> HIDE DEF L, n, order, R
      <4> QED BY <1>1, <1>5
    <3> QED BY <3>1 DEF Binary, Nodes
  <2> DEFINE P == Panes(t)  W == Widgets \cup {Empty}
  <2>2. P \in [1 .. n -> W]
    <3> HIDE DEF L, n, order, R
    <3> QED BY <1>8, <2>1
  <2> HIDE DEF P, n, W
  <2>3. P \in Seq(W) /\ Len(P) = n
    BY <1>2, <2>2
  <2> QED BY <2>3 DEF P, W
<1> QED BY <1>1, <1>2, <1>5, <1>6, <1>7, <1>8, <1>9

\* What goes through the leaves upwards is the row.
LEMMA RowIs ==
  ASSUME NEW t, Binary(t), NEW n \in Nat, NEW order \in [1 .. n -> Leaves(t)],
         \A p \in Leaves(t) : \E i \in 1 .. n : order[i] = p,
         \A i, j \in 1 .. n : i < j => Precedes(order[i], order[j])
  PROVE  Panes(t) \in Seq(Widgets \cup {Empty}) /\ Len(Panes(t)) = n
         /\ \A k \in 1 .. n : Panes(t)[k] = t[order[k]].widget
<1> DEFINE L == Leaves(t)  R == Reading(L)
<1>1. /\ OrderOn(R, L) /\ \A p, q \in L : <<p, q>> \in R <=> Precedes(p, q)
  BY LeavesInOrder
<1> HIDE DEF R
<1>2. Enumerates(order, n, L, R)
  BY <1>1 DEF Enumerates
<1>3. Sorted(L, R) = order /\ Cardinality(L) = n
  <2>1. \A p, q \in L : <<p, q>> \in R => <<q, p>> \notin R
    BY <1>1 DEF OrderOn
  <2> HIDE DEF L
  <2> QED BY <1>2, <2>1, EnumerationIsSorted
<1>4. Row(t) = order
  BY <1>3 DEF Row, R
<1>5. /\ Panes(t) = [k \in 1 .. Cardinality(L) |-> t[Row(t)[k]].widget]
      /\ Panes(t) \in Seq(Widgets \cup {Empty}) /\ Len(Panes(t)) = Cardinality(L)
  BY RowOfLeaves
<1> QED BY <1>3, <1>4, <1>5

-----------------------------------------------------------------------------
(* What the operations on a tree do to it and to its row of panes. *)

LEMMA LayoutBounds ==
  One \in Nat \ {0} /\ MaxPanes \in Nat /\ MaxClicks \in [Editors -> Nat]
BY AdministrationConstants DEF LayoutConstants

\* A tree of another content.
LEMMA SameShape ==
  ASSUME NEW t, Binary(t), NEW u \in [DOMAIN t -> Nodes]
  PROVE  /\ Binary(u) /\ Leaves(u) = Leaves(t) /\ Row(u) = Row(t)
<1>1. DOMAIN u = DOMAIN t
  OBVIOUS
<1>2. Binary(u)
  BY <1>1 DEF Binary
<1>3. \A p : IsLeaf(u, p) <=> IsLeaf(t, p)
  BY <1>1 DEF IsLeaf
<1>4. Leaves(u) = Leaves(t)
  BY <1>1, <1>3 DEF Leaves
<1> QED BY <1>2, <1>4 DEF Row

LEMMA SetWidgetKeeps ==
  ASSUME NEW t, Binary(t), NEW p, NEW w \in Widgets \cup {Empty}
  PROVE  /\ Binary(SetWidget(t, p, w))
         /\ IsLeaf(t, p) =>
              Panes(SetWidget(t, p, w)) = [Panes(t) EXCEPT ![Before(t, p) + 1] = w]
<1> DEFINE u == SetWidget(t, p, w)
<1>1. CASE ~ IsLeaf(t, p)
  BY <1>1 DEF SetWidget
<1>2. CASE IsLeaf(t, p)
  <2> DEFINE n == Cardinality(Leaves(t))  order == Row(t)  V == Widgets \cup {Empty}
  <2>1. u = [t EXCEPT ![p].widget = w] /\ p \in DOMAIN t /\ p \in Leaves(t)
    BY <1>2 DEF SetWidget, IsLeaf, Leaves
  <2>2. /\ t \in [DOMAIN t -> Nodes] /\ t[p] \in Nodes
    BY <2>1 DEF Binary
  <2>3. /\ u \in [DOMAIN t -> Nodes] /\ u[p].widget = w
        /\ \A q \in DOMAIN t : q # p => u[q] = t[q]
    <3> DEFINE node == [t[p] EXCEPT !.widget = w]
    <3>1. node \in Nodes /\ node.widget = w
      BY <2>2 DEF Nodes
    <3>2. u = [t EXCEPT ![p] = node]
      BY <2>1
    <3> HIDE DEF node, u
    <3> QED BY <2>1, <2>2, <3>1, <3>2
  <2> HIDE DEF u
  <2>4. Binary(u) /\ Leaves(u) = Leaves(t) /\ Row(u) = order
    BY <2>3, SameShape
  <2>5. /\ n \in Nat /\ order \in [1 .. n -> Leaves(t)]
        /\ \A q \in Leaves(t) : \E i \in 1 .. n : order[i] = q
        /\ \A i \in 1 .. n : Before(t, order[i]) = i - 1
        /\ \A i, j \in 1 .. n : order[i] = order[j] => i = j
        /\ Panes(t) = [k \in 1 .. n |-> t[order[k]].widget]
    BY RowOfLeaves
  <2>6. Panes(u) = [k \in 1 .. n |-> u[order[k]].widget]
    <3>1. Panes(u) = [k \in 1 .. Cardinality(Leaves(u)) |-> u[Row(u)[k]].widget]
      BY <2>4, RowOfLeaves
    <3> QED BY <3>1, <2>4
  <2> HIDE DEF n, order
  <2>7. PICK i \in 1 .. n : order[i] = p
    BY <2>1, <2>5
  <2>8. Before(t, p) + 1 = i
    BY <2>5, <2>7
  <2>9. \A k \in 1 .. n : order[k] \in DOMAIN t
    BY <2>5 DEF Leaves
  <2>10. \A k \in 1 .. n : u[order[k]].widget = IF k = i THEN w ELSE t[order[k]].widget
    BY <2>3, <2>5, <2>7, <2>9
  <2>11. Panes(u) = [Panes(t) EXCEPT ![i] = w]
    <3> DEFINE P == Panes(t)  Q == [P EXCEPT ![i] = w]
    <3>1. P = [k \in 1 .. n |-> t[order[k]].widget]
      BY <2>5
    <3>2. Panes(u) = [k \in 1 .. n |-> IF k = i THEN w ELSE t[order[k]].widget]
      BY <2>6, <2>10
    <3> HIDE DEF P
    <3>3. Q = [k \in 1 .. n |-> IF k = i THEN w ELSE t[order[k]].widget]
      BY <3>1
    <3> QED BY <3>2, <3>3 DEF P
  <2> QED BY <2>4, <2>8, <2>11 DEF u
<1> QED BY <1>1, <1>2

LEMMA SetWeightsKeeps ==
  ASSUME NEW t, Binary(t), NEW p, NEW weights, Wide(weights)
  PROVE  /\ Binary(SetWeights(t, p, weights)) /\ Panes(SetWeights(t, p, weights)) = Panes(t)
         /\ DOMAIN SetWeights(t, p, weights) = DOMAIN t
<1> DEFINE u == SetWeights(t, p, weights)  n == Cardinality(Leaves(t))  order == Row(t)
<1>1. ASSUME NEW q \in DOMAIN t PROVE u[q] \in Nodes /\ u[q].widget = t[q].widget
  <2>1. t[q] \in Nodes
    BY DEF Binary
  <2>2. CASE q \in Children(t, p) /\ Last(q) \in DOMAIN weights
    <3>1. u[q] = [t[q] EXCEPT !.weight = weights[Last(q)]]
      BY <2>2 DEF SetWeights
    <3>2. weights[Last(q)] \in Nat \ {0}
      BY <2>2 DEF Wide
    <3> QED BY <2>1, <3>1, <3>2 DEF Nodes
  <2>3. CASE ~ (q \in Children(t, p) /\ Last(q) \in DOMAIN weights)
    <3>1. u[q] = t[q]
      BY <2>3 DEF SetWeights
    <3> QED BY <2>1, <3>1
  <2> QED BY <2>2, <2>3
<1>2. u = [q \in DOMAIN t |-> u[q]]
  BY DEF SetWeights
<1> HIDE DEF u
<1>3. u \in [DOMAIN t -> Nodes]
  BY <1>1, <1>2
<1>4. Binary(u) /\ Leaves(u) = Leaves(t) /\ Row(u) = order
  BY <1>3, SameShape
<1>5. /\ n \in Nat /\ order \in [1 .. n -> Leaves(t)]
      /\ Panes(t) = [k \in 1 .. n |-> t[order[k]].widget]
  BY RowOfLeaves
<1>6. Panes(u) = [k \in 1 .. n |-> u[order[k]].widget]
  <2>1. Panes(u) = [k \in 1 .. Cardinality(Leaves(u)) |-> u[Row(u)[k]].widget]
    BY <1>4, RowOfLeaves
  <2> QED BY <2>1, <1>4
<1> HIDE DEF n, order
<1>7. \A k \in 1 .. n : order[k] \in DOMAIN t
  BY <1>5 DEF Leaves
<1>8. Panes(u) = Panes(t)
  BY <1>1, <1>5, <1>6, <1>7
<1> QED BY <1>2, <1>4, <1>8 DEF u

LEMMA SplitLeafKeeps ==
  ASSUME NEW t, Binary(t), NEW p
  PROVE  /\ Binary(SplitLeaf(t, p))
         /\ IsLeaf(t, p) =>
              Panes(SplitLeaf(t, p)) = InsertAt(Panes(t), Before(t, p) + 1 + 1, Empty)
<1>1. CASE ~ IsLeaf(t, p)
  BY <1>1 DEF SplitLeaf
<1>2. CASE IsLeaf(t, p)
  <2> DEFINE D == DOMAIN t  p1 == Append(p, 1)  p2 == Append(p, 2)  u == SplitLeaf(t, p)
             V == Widgets \cup {Empty}
  <2>1. /\ p \in D /\ p \in Path /\ Len(p) \in Nat /\ p \in Leaves(t) /\ t[p] \in Nodes
    BY <1>2, PathElements DEF IsLeaf, Leaves, Binary
  <2>2. /\ p1 \in Path /\ p2 \in Path /\ p1 # << >> /\ p2 # << >>
        /\ Front(p1) = p /\ Front(p2) = p /\ Last(p1) = 1 /\ Last(p2) = 2
        /\ Len(p1) = Len(p) + 1 /\ Len(p2) = Len(p) + 1
        /\ \A k \in 1 .. Len(p) : p1[k] = p[k] /\ p2[k] = p[k]
        /\ p1[Len(p) + 1] = 1 /\ p2[Len(p) + 1] = 2
    BY <2>1, PathAppend
  <2>3. p1 \notin D /\ p2 \notin D /\ p1 # p2 /\ p # p1 /\ p # p2
    BY <1>2, <2>1, <2>2, LeafOfTwo
  <2>4. /\ u = [q \in D \cup {p1, p2} |->
                 CASE q = p1 -> Pane(t[p].widget)
                   [] q = p2 -> Pane(Empty)
                   [] q = p  -> [t[p] EXCEPT !.widget = Empty]
                   [] OTHER  -> t[q]]
    BY <1>2 DEF SplitLeaf, Split
  <2>5. /\ DOMAIN u = D \cup {p1, p2}
        /\ u[p1] = Pane(t[p].widget) /\ u[p2] = Pane(Empty)
        /\ u[p] = [t[p] EXCEPT !.widget = Empty]
        /\ \A q \in D : q # p => u[q] = t[q]
    <3> HIDE DEF p1, p2, u, D
    <3>0. DOMAIN u = D \cup {p1, p2} /\ p1 \in D \cup {p1, p2}
      BY <2>4
    <3>1. u[p1] = Pane(t[p].widget)
      BY <2>4, <3>0, <2>3
    <3>2. u[p2] = Pane(Empty)
      BY <2>3, <2>4
    <3>3. u[p] = [t[p] EXCEPT !.widget = Empty]
      BY <2>1, <2>3, <2>4
    <3>4. ASSUME NEW q \in D, q # p PROVE u[q] = t[q]
      <4>1. q # p1 /\ q # p2
        BY <2>3
      <4> QED BY <2>4, <3>4, <4>1
    <3> QED BY <3>0, <3>1, <3>2, <3>3, <3>4
  <2>6. u = [q \in DOMAIN u |-> u[q]]
    BY <2>4
  <2> HIDE DEF p1, p2, u
  <2>7. Binary(u)
    <3>1. IsFiniteSet(DOMAIN u)
      <4>1. IsFiniteSet(D \cup {p1})
        BY FS_AddElement DEF Binary
      <4>2. IsFiniteSet((D \cup {p1}) \cup {p2})
        BY <4>1, FS_AddElement
      <4>3. DOMAIN u = (D \cup {p1}) \cup {p2}
        BY <2>5
      <4> QED BY <4>2, <4>3
    <3>2. DOMAIN u \subseteq Path /\ << >> \in DOMAIN u
      BY <2>2, <2>5 DEF Binary
    <3>3. ASSUME NEW q \in DOMAIN u, q # << >>
          PROVE  Front(q) \in DOMAIN u /\ Append(Front(q), 3 - Last(q)) \in DOMAIN u
      <4>1. CASE q \in D
        BY <3>3, <4>1, <2>5 DEF Binary
      <4>2. CASE q = p1
        BY <4>2, <2>1, <2>2, <2>5 DEF p2
      <4>3. CASE q = p2
        BY <4>3, <2>1, <2>2, <2>5 DEF p1
      <4> QED BY <4>1, <4>2, <4>3, <2>5
    <3>4. ASSUME NEW q \in DOMAIN u PROVE u[q] \in Nodes
      <4>1. \A w \in V : Pane(w) \in Nodes
        BY LayoutBounds DEF Pane, Nodes
      <4>2. u[p1] \in Nodes /\ u[p2] \in Nodes /\ u[p] \in Nodes
        <5>1. t[p].widget \in V /\ [t[p] EXCEPT !.widget = Empty] \in Nodes
          BY <2>1 DEF Nodes
        <5> QED BY <5>1, <4>1, <2>5
      <4>3. q \in D => t[q] \in Nodes
        BY DEF Binary
      <4> QED BY <4>2, <4>3, <2>5
    <3> QED BY <3>1, <3>2, <3>3, <3>4, <2>6 DEF Binary
  <2>8. Leaves(u) = (Leaves(t) \ {p}) \cup {p1, p2}
    <3>1. ASSUME NEW q \in D, q # p PROVE IsLeaf(u, q) <=> IsLeaf(t, q)
      <4>1. Append(q, 1) # p1 /\ Append(q, 1) # p2
        <5>1. q \in Path
          BY DEF Binary
        <5>2. Front(Append(q, 1)) = q
          BY <5>1, PathAppend
        <5> QED BY <5>2, <3>1, <2>2
      <4> QED BY <4>1, <2>5 DEF IsLeaf
    <3>2. ~ IsLeaf(u, p)
      BY <2>5 DEF IsLeaf, p1
    <3>3. ASSUME NEW q \in {p1, p2} PROVE IsLeaf(u, q)
      <4>1. q \in Path /\ q \notin D /\ Front(q) = p
        BY <2>2, <2>3
      <4>2. Front(Append(q, 1)) = q /\ (Append(q, 1) \in D => q \in D)
        BY <4>1, PathAppend, Kin
      <4>3. q # p
        BY <2>3
      <4>4. Append(q, 1) \notin D /\ Append(q, 1) # p1 /\ Append(q, 1) # p2
        BY <4>1, <4>2, <4>3, <2>2
      <4> QED BY <4>4, <2>5 DEF IsLeaf
    <3>4. \A q : q \in Leaves(u) <=> q \in DOMAIN u /\ IsLeaf(u, q)
      BY DEF Leaves
    <3>5. \A q : q \in Leaves(t) <=> q \in D /\ IsLeaf(t, q)
      BY DEF Leaves
    <3> QED BY <3>1, <3>2, <3>3, <3>4, <3>5, <2>5, <2>3
  <2> DEFINE n == Cardinality(Leaves(t))  order == Row(t)  L == Leaves(t)
  <2>9. /\ n \in Nat /\ order \in [1 .. n -> L]
        /\ \A q \in L : \E i \in 1 .. n : order[i] = q
        /\ \A i, j \in 1 .. n : i < j => Precedes(order[i], order[j])
        /\ \A i \in 1 .. n : Before(t, order[i]) = i - 1
        /\ \A i, j \in 1 .. n : order[i] = order[j] => i = j
        /\ Panes(t) = [k \in 1 .. n |-> t[order[k]].widget]
        /\ Panes(t) \in Seq(V) /\ Len(Panes(t)) = n
    BY RowOfLeaves
  <2> HIDE DEF n, order
  <2>10. PICK i \in 1 .. n : order[i] = p
    BY <2>1, <2>9
  <2> DEFINE new == [k \in 1 .. n + 1 |-> IF k < i THEN order[k] ELSE IF k = i THEN p1
                                          ELSE IF k = i + 1 THEN p2 ELSE order[k - 1]]
  <2>11. ASSUME NEW q \in L, q # p
         PROVE  /\ Precedes(q, p) => Precedes(q, p1) /\ Precedes(q, p2)
                /\ Precedes(p, q) => Precedes(p1, q) /\ Precedes(p2, q)
    <3>1. q \in Path /\ Len(q) \in Nat
      BY PathElements, LeavesInOrder
    <3>2. ASSUME NEW r \in {p1, p2}, Precedes(q, p) PROVE Precedes(q, r)
      <4>1. PICK k \in 1 .. Len(q) :
              k <= Len(p) /\ q[k] < p[k] /\ \A j \in 1 .. k - 1 : q[j] = p[j]
        BY <2>1, <3>1, <3>2, PrecedesByElement
      <4>2. \A j \in 1 .. k : r[j] = p[j]
        BY <2>1, <2>2, <3>1, <4>1
      <4>3. k <= Len(r) /\ q[k] < r[k] /\ \A j \in 1 .. k - 1 : q[j] = r[j]
        BY <2>1, <2>2, <3>1, <4>1, <4>2
      <4> QED BY <2>2, <3>1, <4>3, PrecedesByElement
    <3>3. ASSUME NEW r \in {p1, p2}, Precedes(p, q) PROVE Precedes(r, q)
      <4>1. PICK k \in 1 .. Len(p) :
              k <= Len(q) /\ p[k] < q[k] /\ \A j \in 1 .. k - 1 : p[j] = q[j]
        BY <2>1, <3>1, <3>3, PrecedesByElement
      <4>2. \A j \in 1 .. k : r[j] = p[j]
        BY <2>1, <2>2, <4>1
      <4>3. k \in 1 .. Len(r) /\ r[k] < q[k] /\ \A j \in 1 .. k - 1 : r[j] = q[j]
        BY <2>1, <2>2, <4>1, <4>2
      <4> QED BY <2>2, <3>1, <4>1, <4>3, PrecedesByElement
    <3> QED BY <3>2, <3>3
  <2>12. Precedes(p1, p2)
    <3>1. \A j \in 1 .. Len(p) : p1[j] = p2[j]
      BY <2>2
    <3>2. /\ Len(p) + 1 \in 1 .. Len(p1) /\ Len(p) + 1 <= Len(p2)
          /\ p1[Len(p) + 1] < p2[Len(p) + 1]
      BY <2>1, <2>2
    <3>3. \A j \in 1 .. (Len(p) + 1) - 1 : p1[j] = p2[j]
      BY <2>1, <3>1
    <3> QED BY <2>2, <3>2, <3>3, PrecedesByElement
  <2>13. new \in [1 .. n + 1 -> Leaves(u)]
    <3>1. ASSUME NEW k \in 1 .. n + 1 PROVE new[k] \in Leaves(u)
      <4>1. CASE k < i
        <5>1. k \in 1 .. n /\ order[k] \in L /\ order[k] # p
          BY <4>1, <2>9, <2>10
        <5> QED BY <4>1, <5>1, <2>8
      <4>2. CASE k = i
        BY <4>2, <2>8
      <4>3. CASE k = i + 1
        BY <4>3, <2>8
      <4>4. CASE k > i + 1
        <5>1. k - 1 \in 1 .. n /\ k - 1 # i
          BY <4>4, <2>9
        <5>2. order[k - 1] \in L /\ order[k - 1] # p
          BY <5>1, <2>9, <2>10
        <5> QED BY <4>4, <5>2, <2>8
      <4> QED BY <4>1, <4>2, <4>3, <4>4, <2>9
    <3> QED BY <3>1
  <2>14. /\ \A k \in 1 .. n : k < i => new[k] = order[k]
         /\ new[i] = p1 /\ new[i + 1] = p2
         /\ \A k \in 1 .. n : k > i => new[k + 1] = order[k]
    BY <2>9
  <2>15. ASSUME NEW q \in Leaves(u) PROVE \E k \in 1 .. n + 1 : new[k] = q
    <3>1. i \in 1 .. n + 1 /\ i + 1 \in 1 .. n + 1
      BY <2>9
    <3> HIDE DEF new
    <3>2. CASE q = p1
      BY <3>1, <3>2, <2>14
    <3>3. CASE q = p2
      BY <3>1, <3>3, <2>14
    <3>4. CASE q \in L \ {p}
      <4>1. PICK k \in 1 .. n : order[k] = q
        BY <3>4, <2>9
      <4>2. k # i
        BY <3>4, <4>1, <2>10
      <4>3. k \in 1 .. n + 1 /\ k + 1 \in 1 .. n + 1
        BY <2>9
      <4>4. CASE k < i
        BY <4>1, <4>3, <4>4, <2>14
      <4>5. CASE k > i
        BY <4>1, <4>3, <4>5, <2>14
      <4> QED BY <4>2, <4>4, <4>5
    <3> QED BY <3>2, <3>3, <3>4, <2>8
  <2>16. ASSUME NEW k \in 1 .. n + 1, NEW l \in 1 .. n + 1, k < l
         PROVE  Precedes(new[k], new[l])
    <3> DEFINE old(j) == IF j <= i THEN j ELSE j - 1
    <3>1. /\ old(k) \in 1 .. n /\ old(l) \in 1 .. n
          /\ old(k) < old(l) \/ (k = i /\ l = i + 1)
      BY <2>9, <2>16
    <3>2. CASE k = i /\ l = i + 1
      <4> HIDE DEF new
      <4> QED BY <3>2, <2>12, <2>14
    <3>3. CASE old(k) < old(l)
      <4>1. Precedes(order[old(k)], order[old(l)])
        <5> HIDE DEF old
        <5> QED BY <3>1, <3>3, <2>9
      <4>2. CASE k < i
        <5>1. new[k] = order[k] /\ order[k] # p /\ order[k] \in L /\ old(k) = k
          BY <4>2, <2>9, <2>10
        <5>2. CASE l < i
          BY <4>1, <5>1, <5>2
        <5>3. CASE l \in {i, i + 1}
          <6>1. old(l) = i /\ new[l] \in {p1, p2}
            BY <5>3
          <6> HIDE DEF new, old
          <6> QED BY <4>1, <5>1, <6>1, <2>10, <2>11
        <5>4. CASE l > i + 1
          BY <4>1, <5>1, <5>4
        <5> QED BY <5>2, <5>3, <5>4, <2>9
      <4>3. CASE k \in {i, i + 1}
        <5>1. old(k) = i /\ new[k] \in {p1, p2}
          BY <4>3
        <5>2. l > i + 1
          BY <3>3, <4>3, <2>9
        <5>3. new[l] = order[l - 1] /\ old(l) = l - 1 /\ l - 1 \in 1 .. n /\ l - 1 # i
          BY <5>2, <2>9
        <5>4. order[l - 1] \in L /\ order[l - 1] # p
          BY <5>3, <2>9, <2>10
        <5> HIDE DEF new, old
        <5> QED BY <4>1, <5>1, <5>3, <5>4, <2>10, <2>11
      <4>4. CASE k > i + 1
        <5>1. l > i + 1
          BY <2>16, <4>4, <2>9
        <5> QED BY <4>1, <4>4, <5>1
      <4> QED BY <4>2, <4>3, <4>4, <2>9
    <3> QED BY <3>1, <3>2, <3>3
  <2> HIDE DEF new
  <2>17. /\ Panes(u) \in Seq(V) /\ Len(Panes(u)) = n + 1
         /\ \A k \in 1 .. n + 1 : Panes(u)[k] = u[new[k]].widget
    <3>1. n + 1 \in Nat
      BY <2>9
    <3> QED BY <3>1, <2>7, <2>13, <2>15, <2>16, RowIs
  <2> DEFINE P == Panes(t)  Q == InsertAt(P, i + 1, Empty)
  <2>18. /\ Q \in Seq(V) /\ Len(Q) = n + 1
         /\ \A k \in 1 .. n + 1 : Q[k] = IF k < i + 1 THEN P[k] ELSE IF k = i + 1 THEN Empty
                                         ELSE P[k - 1]
    <3> DEFINE m == i + 1
    <3>1. P \in Seq(V) /\ Len(P) = n /\ m \in 1 .. Len(P) + 1 /\ Empty \in V
      BY <2>9
    <3> DEFINE z == Empty
    <3> HIDE DEF P, V, m, z
    <3>5. P \in Seq(V) /\ m \in 1 .. Len(P) + 1 /\ z \in V
      BY <3>1 DEF z
    <3>6. InsertAt(P, m, z) \in Seq(V) /\ Len(InsertAt(P, m, z)) = Len(P) + 1
      BY <3>5, InsertByElement
    <3>7. \A k \in 1 .. m - 1 : InsertAt(P, m, z)[k] = P[k]
      BY <3>5, InsertByElement
    <3>8. InsertAt(P, m, z)[m] = z
      BY <3>5, InsertByElement
    <3>9. \A k \in m .. Len(P) : InsertAt(P, m, z)[k + 1] = P[k]
      BY <3>5, InsertByElement
    <3>2. /\ InsertAt(P, m, Empty) \in Seq(V) /\ Len(InsertAt(P, m, Empty)) = Len(P) + 1
          /\ \A k \in 1 .. m - 1 : InsertAt(P, m, Empty)[k] = P[k]
          /\ InsertAt(P, m, Empty)[m] = Empty
          /\ \A k \in m .. Len(P) : InsertAt(P, m, Empty)[k + 1] = P[k]
      BY <3>6, <3>7, <3>8, <3>9 DEF z
    <3>3. /\ Q \in Seq(V) /\ Len(Q) = n + 1
          /\ \A k \in 1 .. i : Q[k] = P[k]
          /\ Q[i + 1] = Empty
          /\ \A k \in i + 1 .. n : Q[k + 1] = P[k]
      BY <3>1, <3>2, <2>9 DEF m
    <3> HIDE DEF Q
    <3>4. ASSUME NEW k \in 1 .. n + 1
          PROVE  Q[k] = IF k < i + 1 THEN P[k] ELSE IF k = i + 1 THEN Empty ELSE P[k - 1]
      <4>1. CASE k <= i
        BY <3>3, <4>1
      <4>2. CASE k = i + 1
        BY <3>3, <4>2
      <4>3. CASE k > i + 1
        <5>1. k - 1 \in i + 1 .. n /\ (k - 1) + 1 = k
          BY <4>3, <2>9
        <5>2. Q[(k - 1) + 1] = P[k - 1]
          BY <3>3, <5>1
        <5> QED BY <4>3, <5>1, <5>2
      <4> QED BY <4>1, <4>2, <4>3, <2>9
    <3> QED BY <3>3, <3>4
  <2>19. ASSUME NEW k \in 1 .. n + 1 PROVE Panes(u)[k] = Q[k]
    <3> HIDE DEF P, Q
    <3>1. \A j \in 1 .. n : P[j] = t[order[j]].widget /\ order[j] \in D
      BY <2>9 DEF P, Leaves
    <3> n \in Nat
      BY <2>9
    <3>2. CASE k < i
      <4>1. k \in 1 .. n /\ k # i /\ k < i + 1
        BY <3>2
      <4>2. order[k] # p
        BY <4>1, <2>9, <2>10
      <4>3. new[k] = order[k]
        BY <3>2, <4>1, <2>14
      <4>4. Panes(u)[k] = u[new[k]].widget /\ Q[k] = P[k]
        BY <4>1, <2>17, <2>18
      <4>5. u[order[k]] = t[order[k]]
        BY <3>1, <4>1, <4>2, <2>5
      <4> QED BY <3>1, <4>1, <4>3, <4>4, <4>5
    <3>3. CASE k = i
      <4>1. k \in 1 .. n /\ k < i + 1 /\ new[k] = p1 /\ order[k] = p
        BY <3>3, <2>10, <2>14
      <4>2. Panes(u)[k] = u[new[k]].widget /\ Q[k] = P[k]
        BY <4>1, <2>17, <2>18
      <4>3. P[k] = t[p].widget
        BY <3>1, <4>1
      <4>4. u[new[k]] = Pane(t[p].widget)
        BY <4>1, <2>5
      <4>5. Panes(u)[k] = Pane(t[p].widget).widget /\ Q[k] = t[p].widget
        BY <4>2, <4>3, <4>4
      <4> QED BY <4>5 DEF Pane
    <3>4. CASE k = i + 1
      <4>1. k \in 1 .. n + 1 /\ ~ (k < i + 1) /\ new[k] = p2
        BY <3>4, <2>14
      <4>2. Panes(u)[k] = u[new[k]].widget /\ Q[k] = Empty
        BY <3>4, <4>1, <2>17, <2>18
      <4>3. u[new[k]] = Pane(Empty)
        BY <4>1, <2>5
      <4> QED BY <4>2, <4>3 DEF Pane
    <3>5. CASE k > i + 1
      <4>1. k - 1 \in 1 .. n /\ k - 1 > i /\ (k - 1) + 1 = k
        BY <3>5, <2>9
      <4>2. order[k - 1] # p
        BY <4>1, <2>9, <2>10
      <4>3. new[k] = order[k - 1]
        <5> DEFINE j == k - 1
        <5>1. j \in 1 .. n /\ j > i /\ j + 1 = k
          BY <4>1
        <5> HIDE DEF j
        <5>2. new[j + 1] = order[j]
          BY <5>1, <2>14
        <5> QED BY <5>1, <5>2 DEF j
      <4>4. Panes(u)[k] = u[new[k]].widget /\ Q[k] = P[k - 1]
        BY <3>5, <2>17, <2>18
      <4>5. u[order[k - 1]] = t[order[k - 1]]
        BY <3>1, <4>1, <4>2, <2>5
      <4> QED BY <3>1, <4>1, <4>3, <4>4, <4>5
    <3> QED BY <3>2, <3>3, <3>4, <3>5, <2>9
  <2>20. Panes(u) = Q
    <3> HIDE DEF Q, V
    <3> QED BY <2>17, <2>18, <2>19, SeqEqual
  <2>21. Before(t, p) + 1 + 1 = i + 1
    BY <2>9, <2>10
  <2> QED BY <2>7, <2>20, <2>21 DEF u
<1> QED BY <1>1, <1>2

-----------------------------------------------------------------------------
(* Removal: the sibling's subtree moves up by one level, and nothing else moves. *)

\* q lies under the split that p is part of.
Under(p, q) == Len(p) <= Len(q) /\ \A k \in 1 .. Len(p) - 1 : q[k] = p[k]

LEMMA RemainingByElement ==
  ASSUME NEW t, Binary(t), NEW p \in DOMAIN t, p # << >>
  PROVE  /\ Front(p) \in DOMAIN t /\ Front(p) \in Path /\ p \in Path
         /\ Remaining(t, p) \subseteq DOMAIN t /\ Remaining(t, p) \subseteq Path
         /\ \A q \in DOMAIN t : q \in Remaining(t, p) <=>
              q # Front(p) /\ ~ (Under(p, q) /\ q[Len(p)] = p[Len(p)])
         /\ \A q \in Path : Moved(t, p, q) =
              IF Under(p, q) THEN RemoveAt(q, Len(p)) ELSE q
<1> DEFINE f == Front(p)  level == Len(p)
<1>1. /\ f \in DOMAIN t /\ f \in Path /\ p \in Path /\ level \in Nat \ {0} /\ Len(f) = level - 1
      /\ \A k \in 1 .. level - 1 : f[k] = p[k]
      /\ p = Append(f, Last(p)) /\ Last(p) \in {1, 2}
  BY PathEnds DEF Binary
<1>2. Merges(t, p)
  <2> SUFFICES ASSUME Append(f, 3) \in DOMAIN t PROVE FALSE
    BY DEF Merges
  <2>1. Append(f, 3) \in Path /\ Len(Append(f, 3)) = Len(f) + 1 /\ Append(f, 3)[Len(f) + 1] = 3
    <3>1. f \in Seq({1, 2, 3}) /\ 3 \in {1, 2, 3}
      BY <1>1, SeqMonotonic DEF Path
    <3> QED BY <3>1, AppendProperties DEF Binary
  <2> DEFINE a == Append(f, 3)  k == Len(f) + 1
  <2>2. k \in 1 .. Len(a) /\ a \in Path /\ a[k] = 3
    BY <1>1, <2>1
  <2> HIDE DEF a, k
  <2>3. a[k] \in {1, 2}
    BY <2>2, PathElements
  <2> QED BY <2>2, <2>3
<1>3. \A q \in Path : IsPrefix(p, q) <=> Under(p, q) /\ q[level] = p[level]
  <2> TAKE q \in Path
  <2>1. IsPrefix(p, q) <=> level <= Len(q) /\ \A k \in 1 .. level : p[k] = q[k]
    BY <1>1, PathPrefix
  <2>2. (\A k \in 1 .. level : p[k] = q[k]) <=>
          (\A k \in 1 .. level - 1 : q[k] = p[k]) /\ q[level] = p[level]
    <3>1. \A k : k \in 1 .. level <=> k \in 1 .. level - 1 \/ k = level
      BY <1>1
    <3> HIDE DEF level
    <3> QED BY <3>1
  <2> QED BY <2>1, <2>2 DEF Under
<1>4. \A q \in Path : IsStrictPrefix(f, q) <=> Under(p, q)
  <2> TAKE q \in Path
  <2>1. Len(q) \in Nat
    BY PathElements
  <2>2. IsPrefix(f, q) <=> level - 1 <= Len(q) /\ \A k \in 1 .. level - 1 : p[k] = q[k]
    BY <1>1, PathPrefix
  <2>3. ASSUME Under(p, q) PROVE f # q /\ IsPrefix(f, q)
    BY <1>1, <2>1, <2>2, <2>3 DEF Under
  <2>4. ASSUME IsPrefix(f, q), f # q PROVE Under(p, q)
    <3>1. level - 1 # Len(q)
      <4> SUFFICES ASSUME level - 1 = Len(q) PROVE FALSE
        OBVIOUS
      <4> QED BY <1>1, <2>2, <2>4, PathEqual
    <3> QED BY <1>1, <2>1, <2>2, <2>4, <3>1 DEF Under
  <2> QED BY <2>3, <2>4 DEF IsStrictPrefix
<1>5. \A q \in DOMAIN t : q \in Remaining(t, p) <=>
        q # f /\ ~ (Under(p, q) /\ q[level] = p[level])
  BY <1>2, <1>3 DEF Remaining, Binary
<1>6. Remaining(t, p) \subseteq DOMAIN t /\ Remaining(t, p) \subseteq Path
  BY DEF Remaining, Binary
<1>7. \A q \in Path : Moved(t, p, q) = IF Under(p, q) THEN RemoveAt(q, level) ELSE q
  BY <1>2, <1>4 DEF Moved
<1> QED BY <1>1, <1>5, <1>6, <1>7

LEMMA MovedByElement ==
  ASSUME NEW t, Binary(t), NEW p \in DOMAIN t, p # << >>, NEW q \in Remaining(t, p)
  PROVE  /\ Moved(t, p, q) \in Path
         /\ ~ Under(p, q) => Moved(t, p, q) = q
         /\ Under(p, q) =>
              /\ Len(Moved(t, p, q)) = Len(q) - 1
              /\ \A k \in 1 .. Len(p) - 1 : Moved(t, p, q)[k] = q[k]
              /\ \A k \in Len(p) .. Len(q) - 1 : Moved(t, p, q)[k] = q[k + 1]
              /\ q[Len(p)] = 3 - p[Len(p)]
<1>1. q \in Path /\ p \in Path /\ q \in DOMAIN t /\ Len(q) \in Nat /\ Len(p) \in Nat \ {0}
  BY RemainingByElement, PathElements, PathEnds
<1>2. CASE ~ Under(p, q)
  BY <1>1, <1>2, RemainingByElement
<1>3. CASE Under(p, q)
  <2>1. Moved(t, p, q) = RemoveAt(q, Len(p)) /\ q[Len(p)] # p[Len(p)]
    BY <1>1, <1>3, RemainingByElement
  <2>2. Len(p) \in 1 .. Len(q)
    BY <1>1, <1>3 DEF Under
  <2> DEFINE m == RemoveAt(q, Len(p))
  <2>3. /\ m \in Path /\ Len(m) = Len(q) - 1
        /\ \A k \in 1 .. Len(p) - 1 : m[k] = q[k]
        /\ \A k \in Len(p) .. Len(q) - 1 : m[k] = q[k + 1]
    BY <1>1, <2>2, RemoveByElement DEF Path
  <2>4. q[Len(p)] = 3 - p[Len(p)]
    <3>1. Len(p) \in 1 .. Len(p)
      BY <1>1
    <3>2. q[Len(p)] \in {1, 2} /\ p[Len(p)] \in {1, 2}
      BY <1>1, <2>2, <3>1, PathElements
    <3> QED BY <2>1, <3>2
  <2> HIDE DEF m
  <2> QED BY <1>3, <2>1, <2>3, <2>4 DEF m
<1> QED BY <1>2, <1>3

LEMMA MovedAppend ==
  ASSUME NEW t, Binary(t), NEW p \in DOMAIN t, p # << >>, NEW q \in Remaining(t, p),
         NEW c \in {1, 2}, Append(q, c) \in DOMAIN t, Append(q, c) # Front(p)
  PROVE  /\ Append(q, c) \in Remaining(t, p)
         /\ Moved(t, p, Append(q, c)) = Append(Moved(t, p, q), c)
         /\ Under(p, Append(q, c)) <=> Under(p, q)
<1> DEFINE r == Append(q, c)  f == Front(p)
<1>1. /\ q \in Path /\ p \in Path /\ q \in DOMAIN t /\ q # f /\ f \in Path
      /\ ~ (Under(p, q) /\ q[Len(p)] = p[Len(p)])
      /\ Len(q) \in Nat /\ Len(p) \in Nat \ {0} /\ Len(f) = Len(p) - 1
      /\ \A k \in 1 .. Len(p) - 1 : f[k] = p[k]
  BY RemainingByElement, PathElements, PathEnds
<1>2. /\ r \in Path /\ Len(r) = Len(q) + 1 /\ r[Len(q) + 1] = c
      /\ \A k \in 1 .. Len(q) : r[k] = q[k]
  BY <1>1, PathAppend
<1> HIDE DEF r, f
<1>3. ASSUME Under(p, r) PROVE Under(p, q)
  <2>1. Len(p) # Len(q) + 1
    <3> SUFFICES ASSUME Len(p) = Len(q) + 1 PROVE FALSE
      OBVIOUS
    <3>1. \A k \in 1 .. Len(q) : f[k] = q[k]
      BY <1>1, <1>2, <1>3 DEF Under
    <3> QED BY <1>1, <3>1, PathEqual
  <2>2. Len(p) <= Len(q)
    BY <1>1, <1>2, <1>3, <2>1 DEF Under
  <2> QED BY <1>1, <1>2, <1>3, <2>2 DEF Under
<1>4. ASSUME Under(p, q) PROVE Under(p, r)
  BY <1>1, <1>2, <1>4 DEF Under
<1>5. r \in Remaining(t, p)
  <2>1. ~ (Under(p, r) /\ r[Len(p)] = p[Len(p)])
    <3> SUFFICES ASSUME Under(p, r), r[Len(p)] = p[Len(p)] PROVE FALSE
      OBVIOUS
    <3>1. Under(p, q) /\ Len(p) \in 1 .. Len(q)
      BY <1>1, <1>3 DEF Under
    <3> QED BY <1>1, <1>2, <3>1
  <2> QED BY <2>1, RemainingByElement DEF r, f
<1>6. Moved(t, p, r) = Append(Moved(t, p, q), c)
  <2>1. CASE ~ Under(p, q)
    BY <1>3, <1>5, <2>1, MovedByElement DEF r
  <2>2. CASE Under(p, q)
    <3> DEFINE m == Moved(t, p, q)  n == Moved(t, p, r)  a == Append(m, c)
    <3>1. /\ m \in Path /\ Len(m) = Len(q) - 1 /\ Len(p) <= Len(q)
          /\ \A k \in 1 .. Len(p) - 1 : m[k] = q[k]
          /\ \A k \in Len(p) .. Len(q) - 1 : m[k] = q[k + 1]
      BY <2>2, MovedByElement DEF Under
    <3>2. /\ n \in Path /\ Len(n) = Len(r) - 1
          /\ \A k \in 1 .. Len(p) - 1 : n[k] = r[k]
          /\ \A k \in Len(p) .. Len(r) - 1 : n[k] = r[k + 1]
      BY <1>4, <1>5, <2>2, MovedByElement
    <3> HIDE DEF m, n
    <3>3. /\ a \in Path /\ Len(a) = Len(m) + 1 /\ a[Len(m) + 1] = c
          /\ \A k \in 1 .. Len(m) : a[k] = m[k]
      BY <3>1, PathAppend
    <3> HIDE DEF a
    <3>4. Len(a) = Len(n)
      BY <1>1, <1>2, <3>1, <3>2, <3>3
    <3>5. \A k \in 1 .. Len(n) : n[k] = a[k]
      <4> TAKE k \in 1 .. Len(n)
      <4>1. CASE k < Len(p)
        <5>1. n[k] = q[k] /\ a[k] = m[k] /\ m[k] = q[k]
          BY <1>1, <1>2, <3>1, <3>2, <3>3, <4>1
        <5> QED BY <5>1
      <4>2. CASE Len(p) <= k /\ k <= Len(m)
        <5>1. k + 1 \in 1 .. Len(q) /\ k \in Len(p) .. Len(q) - 1 /\ k \in Len(p) .. Len(r) - 1
          BY <1>1, <1>2, <3>1, <4>2
        <5>2. n[k] = r[k + 1] /\ r[k + 1] = q[k + 1] /\ m[k] = q[k + 1]
          BY <1>2, <3>1, <3>2, <5>1
        <5>3. a[k] = m[k]
          BY <1>1, <3>1, <3>3, <4>2
        <5> QED BY <5>2, <5>3
      <4>3. CASE k > Len(m)
        <5>1. k = Len(m) + 1 /\ k = Len(q) /\ k \in Len(p) .. Len(r) - 1
          BY <1>1, <1>2, <3>1, <3>2, <4>3
        <5> QED BY <1>2, <3>2, <3>3, <5>1
      <4> QED BY <1>1, <3>1, <4>1, <4>2, <4>3
    <3> QED BY <3>2, <3>3, <3>4, <3>5, PathEqual DEF m, n, a
  <2> QED BY <2>1, <2>2
<1> QED BY <1>3, <1>4, <1>5, <1>6 DEF r

LEMMA MovedApart ==
  ASSUME NEW t, Binary(t), NEW p \in DOMAIN t, p # << >>,
         NEW q \in Remaining(t, p), NEW r \in Remaining(t, p),
         Moved(t, p, q) = Moved(t, p, r)
  PROVE  q = r
<1> DEFINE f == Front(p)
<1>1. /\ q \in Path /\ r \in Path /\ f \in Path /\ q # f /\ r # f
      /\ q \in DOMAIN t /\ r \in DOMAIN t
      /\ Len(q) \in Nat /\ Len(r) \in Nat /\ Len(p) \in Nat \ {0} /\ Len(f) = Len(p) - 1
      /\ \A k \in 1 .. Len(p) - 1 : f[k] = p[k]
  BY RemainingByElement, PathElements, PathEnds
<1> HIDE DEF f
<1>2. ASSUME NEW x \in Remaining(t, p), NEW y \in Remaining(t, p), Under(p, x), ~ Under(p, y),
             x \in Path, y \in Path, y # f
      PROVE  Moved(t, p, x) # Moved(t, p, y)
  <2> SUFFICES ASSUME Moved(t, p, x) = Moved(t, p, y) PROVE FALSE
    OBVIOUS
  <2>1. Moved(t, p, y) = y /\ Len(x) \in Nat
    BY <1>2, MovedByElement, PathElements
  <2>2. Len(y) = Len(x) - 1 /\ \A k \in 1 .. Len(p) - 1 : y[k] = x[k]
    BY <1>2, <2>1, MovedByElement
  <2>3. Len(p) <= Len(x) /\ \A k \in 1 .. Len(p) - 1 : y[k] = p[k]
    BY <1>2, <2>2 DEF Under
  <2>4. Len(y) # Len(p) - 1
    <3> SUFFICES ASSUME Len(y) = Len(p) - 1 PROVE FALSE
      OBVIOUS
    <3>1. Len(y) = Len(f) /\ \A k \in 1 .. Len(y) : y[k] = f[k]
      BY <1>1, <2>3
    <3> QED BY <1>1, <1>2, <3>1, PathEqual
  <2>5. Len(p) <= Len(y)
    BY <1>1, <2>1, <2>2, <2>3, <2>4
  <2> QED BY <1>2, <2>3, <2>5 DEF Under
<1>3. CASE ~ Under(p, q) /\ ~ Under(p, r)
  BY <1>3, MovedByElement
<1>4. CASE Under(p, q) /\ Under(p, r)
  <2> DEFINE m == Moved(t, p, q)  n == Moved(t, p, r)
  <2>1. /\ Len(m) = Len(q) - 1
        /\ \A k \in Len(p) .. Len(q) - 1 : m[k] = q[k + 1]
        /\ q[Len(p)] = 3 - p[Len(p)]
    BY <1>4, MovedByElement
  <2>2. /\ Len(n) = Len(r) - 1
        /\ \A k \in Len(p) .. Len(r) - 1 : n[k] = r[k + 1]
        /\ r[Len(p)] = 3 - p[Len(p)]
    BY <1>4, MovedByElement
  <2>3. m = n
    OBVIOUS
  <2> HIDE DEF m, n
  <2>4. Len(q) = Len(r)
    BY <1>1, <2>1, <2>2, <2>3
  <2>5. \A k \in 1 .. Len(q) : q[k] = r[k]
    <3> TAKE k \in 1 .. Len(q)
    <3>1. CASE k < Len(p)
      <4>1. k \in 1 .. Len(p) - 1
        BY <1>1, <3>1
      <4> QED BY <1>4, <4>1 DEF Under
    <3>2. CASE k = Len(p)
      BY <2>1, <2>2, <3>2
    <3>3. CASE k > Len(p)
      <4>1. k - 1 \in Len(p) .. Len(q) - 1 /\ k - 1 \in Len(p) .. Len(r) - 1 /\ (k - 1) + 1 = k
        BY <1>1, <2>4, <3>3
      <4>2. m[k - 1] = q[(k - 1) + 1] /\ n[k - 1] = r[(k - 1) + 1]
        BY <2>1, <2>2, <4>1
      <4> QED BY <2>3, <4>1, <4>2
    <3> QED BY <1>1, <3>1, <3>2, <3>3
  <2> QED BY <1>1, <2>4, <2>5, PathEqual
<1>5. CASE Under(p, q) /\ ~ Under(p, r)
  BY <1>1, <1>2, <1>5
<1>6. CASE ~ Under(p, q) /\ Under(p, r)
  BY <1>1, <1>2, <1>6
<1> QED BY <1>3, <1>4, <1>5, <1>6

LEMMA RemovePaneDomain ==
  ASSUME NEW t, Binary(t), NEW p \in DOMAIN t, p # << >>
  PROVE  DOMAIN RemovePane(t, p) = {Moved(t, p, q) : q \in Remaining(t, p)}
BY DEF RemovePane

\* Whoever remains has a place in the new tree.
LEMMA RemovePaneHas ==
  ASSUME NEW t, Binary(t), NEW p \in DOMAIN t, p # << >>, NEW q \in Remaining(t, p),
         NEW m, m = Moved(t, p, q)
  PROVE  m \in DOMAIN RemovePane(t, p)
<1>1. m \in {Moved(t, p, r) : r \in Remaining(t, p)}
  OBVIOUS
<1> QED BY <1>1, RemovePaneDomain, Zenon

LEMMA RemovePaneNodes ==
  ASSUME NEW t, Binary(t), NEW p \in DOMAIN t, p # << >>
  PROVE  /\ RemovePane(t, p) = [x \in DOMAIN RemovePane(t, p) |-> RemovePane(t, p)[x]]
         /\ \A q \in Remaining(t, p) :
              /\ Moved(t, p, q) \in DOMAIN RemovePane(t, p)
              /\ RemovePane(t, p)[Moved(t, p, q)].widget = t[q].widget
              /\ RemovePane(t, p)[Moved(t, p, q)] \in Nodes
<1> DEFINE u == RemovePane(t, p)  D == {Moved(t, p, q) : q \in Remaining(t, p)}
           from(x) == CHOOSE q \in Remaining(t, p) : Moved(t, p, q) = x
<1>1. u = [x \in D |-> [weight |-> IF x = Front(p) THEN t[x].weight ELSE t[from(x)].weight,
                        widget |-> t[from(x)].widget]]
  BY DEF RemovePane
<1>2. DOMAIN u = D /\ u = [x \in DOMAIN u |-> u[x]]
  <2> HIDE DEF from, D, u
  <2> QED BY <1>1
<1>3. ASSUME NEW q \in Remaining(t, p)
      PROVE  /\ Moved(t, p, q) \in D
             /\ u[Moved(t, p, q)].widget = t[q].widget /\ u[Moved(t, p, q)] \in Nodes
  <2> DEFINE x == Moved(t, p, q)
  <2>1. x \in D
    OBVIOUS
  <2>2. from(x) = q
    BY MovedApart
  <2> HIDE DEF from, D, u
  <2>3. /\ u[x] = [weight |-> IF x = Front(p) THEN t[x].weight ELSE t[q].weight,
                   widget |-> t[q].widget]
    BY <1>1, <2>1, <2>2
  <2>4. t[q] \in Nodes /\ t[Front(p)] \in Nodes
    BY RemainingByElement DEF Binary
  <2>5. u[x] \in Nodes /\ u[x].widget = t[q].widget
    <3> HIDE DEF x
    <3> QED BY <2>3, <2>4 DEF Nodes
  <2> QED BY <2>1, <2>5
<1> HIDE DEF D, u, from
<1> QED BY <1>2, <1>3 DEF D, u

\* The sibling takes the place of the split.
LEMMA SiblingMoves ==
  ASSUME NEW t, Binary(t), NEW p \in DOMAIN t, p # << >>
  PROVE  \E q \in Remaining(t, p) : Moved(t, p, q) = Front(p)
<1> DEFINE f == Front(p)  c == 3 - Last(p)  q == Append(f, c)
<1>1. /\ f \in Path /\ p \in Path /\ Len(p) \in Nat \ {0} /\ Len(f) = Len(p) - 1
      /\ \A k \in 1 .. Len(p) - 1 : f[k] = p[k]
      /\ Last(p) = p[Len(p)] /\ Last(p) \in {1, 2}
  BY RemainingByElement, PathEnds
<1>2. c \in {1, 2} /\ c # p[Len(p)] /\ q \in DOMAIN t
  BY <1>1 DEF Binary
<1> HIDE DEF f, c
<1>3. /\ q \in Path /\ Len(q) = Len(f) + 1 /\ q[Len(f) + 1] = c
      /\ \A k \in 1 .. Len(f) : q[k] = f[k]
  BY <1>1, <1>2, PathAppend
<1> HIDE DEF q
<1>4. Len(q) = Len(p) /\ q[Len(p)] = c /\ q # f
  BY <1>1, <1>3
<1>5. Under(p, q)
  BY <1>1, <1>3, <1>4 DEF Under
<1>6. q \in Remaining(t, p)
  BY <1>2, <1>4, RemainingByElement DEF f
<1>7. Moved(t, p, q) = f
  <2> DEFINE m == Moved(t, p, q)
  <2>1. m \in Path /\ Len(m) = Len(q) - 1 /\ \A k \in 1 .. Len(p) - 1 : m[k] = q[k]
    BY <1>5, <1>6, MovedByElement
  <2> HIDE DEF m
  <2>2. Len(m) = Len(f) /\ \A k \in 1 .. Len(m) : m[k] = f[k]
    BY <1>1, <1>3, <1>4, <2>1
  <2> QED BY <1>1, <2>1, <2>2, PathEqual DEF m
<1> QED BY <1>6, <1>7 DEF f

\* What lies under something in the new tree lay under it in the old one.
LEMMA MovedParent ==
  ASSUME NEW t, Binary(t), NEW p \in DOMAIN t, p # << >>,
         NEW x \in Path, NEW c \in {1, 2}, Append(x, c) \in DOMAIN RemovePane(t, p)
  PROVE  \E q \in Remaining(t, p) : Moved(t, p, q) = x /\ Append(q, c) \in DOMAIN t
<1> DEFINE f == Front(p)  y == Append(x, c)
<1>1. /\ f \in Path /\ f \in DOMAIN t /\ p \in Path /\ Len(p) \in Nat \ {0} /\ Len(f) = Len(p) - 1
      /\ \A k \in 1 .. Len(p) - 1 : f[k] = p[k]
  BY RemainingByElement, PathEnds
<1>2. PICK r \in Remaining(t, p) : Moved(t, p, r) = y
  BY RemovePaneDomain
<1>3. /\ r \in Path /\ r \in DOMAIN t /\ Len(r) \in Nat /\ Len(x) \in Nat
      /\ r # f /\ ~ (Under(p, r) /\ r[Len(p)] = p[Len(p)])
  BY RemainingByElement, PathElements
<1>4. /\ y \in Path /\ Len(y) = Len(x) + 1 /\ \A k \in 1 .. Len(x) : y[k] = x[k]
      /\ Front(y) = x /\ Last(y) = c
  BY PathAppend
<1> HIDE DEF f
\* A node above the split, or beside it, has not moved.
<1>5. ASSUME y \in DOMAIN t, ~ Under(p, x), x # f
      PROVE  x \in Remaining(t, p) /\ Moved(t, p, x) = x /\ Append(x, c) \in DOMAIN t
  <2>1. x \in DOMAIN t
    BY <1>5, Kin
  <2>2. x \in Remaining(t, p)
    BY <1>5, <2>1, RemainingByElement DEF f
  <2> QED BY <1>5, <2>2, MovedByElement
<1>6. CASE ~ Under(p, r)
  <2>1. r = y
    BY <1>2, <1>6, MovedByElement
  <2> HIDE DEF y
  <2>2. x # f
    <3> SUFFICES ASSUME x = f PROVE FALSE
      OBVIOUS
    <3>1. Len(p) <= Len(y) /\ \A k \in 1 .. Len(p) - 1 : y[k] = p[k]
      BY <1>1, <1>4
    <3> QED BY <1>6, <2>1, <3>1 DEF Under
  <2>3. ~ Under(p, x)
    <3> SUFFICES ASSUME Under(p, x) PROVE FALSE
      OBVIOUS
    <3>1. Len(p) <= Len(y) /\ \A k \in 1 .. Len(p) - 1 : y[k] = p[k]
      BY <1>1, <1>3, <1>4 DEF Under
    <3> QED BY <1>6, <2>1, <3>1 DEF Under
  <2> QED BY <1>3, <1>5, <2>1, <2>2, <2>3
<1>7. CASE Under(p, r) /\ Len(r) = Len(p)
  <2>1. /\ Len(y) = Len(p) - 1 /\ \A k \in 1 .. Len(p) - 1 : y[k] = r[k]
    BY <1>2, <1>7, MovedByElement
  <2> HIDE DEF y
  <2>2. y = f
    <3>1. Len(y) = Len(f) /\ \A k \in 1 .. Len(y) : y[k] = f[k]
      BY <1>1, <1>7, <2>1 DEF Under
    <3> QED BY <1>1, <1>4, <3>1, PathEqual
  <2>3. Len(x) = Len(p) - 2
    BY <1>1, <1>3, <1>4, <2>1
  <2>4. ~ Under(p, x) /\ x # f
    BY <1>1, <2>3 DEF Under
  <2> QED BY <1>1, <1>5, <2>2, <2>4
<1>8. CASE Under(p, r) /\ Len(r) # Len(p)
  <2> DEFINE q == Front(r)  d == Last(r)
  <2>1. Len(r) > Len(p) /\ r # << >>
    <3>1. Len(p) <= Len(r) /\ Len(r) > Len(p)
      BY <1>1, <1>3, <1>8 DEF Under
    <3>2. r # << >>
      BY <1>1, <3>1
    <3> QED BY <3>1, <3>2
  <2>2. /\ q \in Path /\ d \in {1, 2} /\ r = Append(q, d) /\ Len(q) = Len(r) - 1
        /\ \A k \in 1 .. Len(r) - 1 : q[k] = r[k]
        /\ q \in DOMAIN t
    BY <1>3, <2>1, PathEnds DEF Binary
  <2> HIDE DEF q, d, y
  <2>3. Under(p, q) /\ q[Len(p)] = r[Len(p)] /\ q # f
    BY <1>1, <1>3, <1>8, <2>1, <2>2 DEF Under
  <2>4. q \in Remaining(t, p)
    BY <1>3, <1>8, <2>2, <2>3, RemainingByElement DEF f
  <2>5. Moved(t, p, r) = Append(Moved(t, p, q), d)
    BY <1>3, <2>2, <2>4, MovedAppend DEF f
  <2>6. Moved(t, p, q) \in Path
    BY <2>4, MovedByElement
  <2> DEFINE m == Moved(t, p, q)
  <2>7. Front(y) = Moved(t, p, q) /\ Last(y) = d
    <3>1. y = Append(m, d) /\ m \in Path
      BY <1>2, <2>5, <2>6
    <3> HIDE DEF m
    <3>2. Front(Append(m, d)) = m /\ Last(Append(m, d)) = d
      BY <2>2, <3>1, PathAppend
    <3> QED BY <3>1, <3>2 DEF m
  <2>8. Moved(t, p, q) = x /\ Append(q, c) \in DOMAIN t
    BY <1>3, <1>4, <2>2, <2>7
  <2> QED BY <2>4, <2>8
<1> QED BY <1>6, <1>7, <1>8, <1>5

LEMMA MovedInner ==
  ASSUME NEW t, Binary(t), NEW p \in DOMAIN t, p # << >>,
         NEW q \in Remaining(t, p), NEW c \in {1, 2}
  PROVE  Append(q, c) \in DOMAIN t <=> Append(Moved(t, p, q), c) \in DOMAIN RemovePane(t, p)
<1>1. ASSUME Append(q, c) \in DOMAIN t
      PROVE  Append(Moved(t, p, q), c) \in DOMAIN RemovePane(t, p)
  <2>1. CASE Append(q, c) # Front(p)
    <3>1. /\ Append(q, c) \in Remaining(t, p)
          /\ Moved(t, p, Append(q, c)) = Append(Moved(t, p, q), c)
      BY <1>1, <2>1, MovedAppend
    <3> QED BY <3>1, RemovePaneHas
  <2>2. CASE Append(q, c) = Front(p)
    <3>1. /\ q \in Path /\ p \in Path /\ Len(p) \in Nat \ {0} /\ Len(Front(p)) = Len(p) - 1
          /\ Len(q) \in Nat
      BY RemainingByElement, PathEnds, PathElements
    <3>2. Len(q) + 1 = Len(p) - 1
      BY <2>2, <3>1, PathAppend
    <3>3. Moved(t, p, q) = q
      <4>1. ~ Under(p, q)
        BY <3>1, <3>2 DEF Under
      <4> QED BY <4>1, MovedByElement
    <3>4. PICK r \in Remaining(t, p) : Moved(t, p, r) = Front(p)
      BY SiblingMoves
    <3>5. Front(p) \in DOMAIN RemovePane(t, p)
      BY <3>4, RemovePaneHas
    <3> QED BY <2>2, <3>3, <3>5
  <2> QED BY <2>1, <2>2
<1>2. ASSUME Append(Moved(t, p, q), c) \in DOMAIN RemovePane(t, p)
      PROVE  Append(q, c) \in DOMAIN t
  <2>1. Moved(t, p, q) \in Path
    BY MovedByElement
  <2>2. PICK r \in Remaining(t, p) : Moved(t, p, r) = Moved(t, p, q) /\ Append(r, c) \in DOMAIN t
    BY <1>2, <2>1, MovedParent
  <2>3. r = q
    BY <2>2, MovedApart
  <2> QED BY <2>2, <2>3
<1> QED BY <1>1, <1>2

LEMMA RemovePaneBinary ==
  ASSUME NEW t, Binary(t), NEW p
  PROVE  Binary(RemovePane(t, p))
<1>1. CASE p = << >> \/ p \notin DOMAIN t
  BY <1>1 DEF RemovePane
<1>2. CASE p # << >> /\ p \in DOMAIN t
  <2> DEFINE u == RemovePane(t, p)  S == Remaining(t, p)
             move == [q \in S |-> Moved(t, p, q)]
  <2>1. DOMAIN u = {Moved(t, p, q) : q \in S}
    BY <1>2, RemovePaneDomain
  <2>2. S \subseteq DOMAIN t /\ \A q \in S : Moved(t, p, q) \in Path
    BY <1>2, RemainingByElement, MovedByElement
  <2>3. u = [x \in DOMAIN u |-> u[x]] /\ \A x \in DOMAIN u : u[x] \in Nodes
    <3>1. u = [x \in DOMAIN u |-> u[x]] /\ \A q \in S : u[Moved(t, p, q)] \in Nodes
      BY <1>2, RemovePaneNodes
    <3> HIDE DEF u, S
    <3> QED BY <2>1, <3>1
  <2> HIDE DEF u
  <2>4. IsFiniteSet(DOMAIN u)
    <3>1. IsFiniteSet(S)
      BY <2>2, FS_Subset DEF Binary
    <3>2. move \in Surjection(S, DOMAIN u)
      <4> HIDE DEF S
      <4> QED BY <2>1 DEF Surjection
    <3>3. ExistsSurjection(S, DOMAIN u)
      BY <3>2 DEF ExistsSurjection
    <3>4. PICK f : f \in Surjection(S, DOMAIN u)
      BY <3>3 DEF ExistsSurjection
    <3> HIDE DEF S
    <3> QED BY <3>1, <3>4, FS_Surjection
  <2>5. DOMAIN u \subseteq Path
    BY <2>1, <2>2
  <2>6. << >> \in DOMAIN u
    <3>1. PICK q \in S : Moved(t, p, q) = Front(p)
      BY <1>2, SiblingMoves
    <3>2. CASE Front(p) = << >>
      BY <2>1, <3>1, <3>2
    <3>3. CASE Front(p) # << >>
      <4> DEFINE r == << >>
      <4>1. r \in DOMAIN t /\ r \in Path /\ Len(r) = 0
        BY DEF Binary, Path
      <4>2. Len(p) \in Nat \ {0}
        BY <1>2, PathEnds DEF Binary
      <4> HIDE DEF r
      <4>3. ~ Under(p, r)
        BY <4>1, <4>2 DEF Under
      <4>4. r \in S
        <5>1. r # Front(p)
          BY <3>3 DEF r
        <5> QED BY <1>2, <4>1, <4>3, <5>1, RemainingByElement
      <4>5. Moved(t, p, r) = r
        BY <1>2, <4>3, <4>4, MovedByElement
      <4>6. r \in DOMAIN u
        BY <2>1, <4>4, <4>5
      <4> QED BY <4>6 DEF r
    <3> QED BY <3>2, <3>3
  <2>7. ASSUME NEW x \in DOMAIN u, x # << >>
        PROVE  Front(x) \in DOMAIN u /\ Append(Front(x), 3 - Last(x)) \in DOMAIN u
    <3> DEFINE f == Front(x)  c == Last(x)
    <3>1. f \in Path /\ c \in {1, 2} /\ Append(f, c) = x
      BY <2>5, <2>7, PathEnds
    <3> HIDE DEF f, c
    <3>2. PICK q \in S : Moved(t, p, q) = f /\ Append(q, c) \in DOMAIN t
      BY <1>2, <2>7, <3>1, MovedParent DEF u
    <3>3. q \in Path /\ Append(q, 1) \in DOMAIN t /\ Append(q, 2) \in DOMAIN t
      BY <1>2, <3>1, <3>2, RemainingByElement, Kin
    <3>4. 3 - c \in {1, 2} /\ Append(q, 3 - c) \in DOMAIN t
      BY <3>1, <3>3
    <3>5. Append(f, 3 - c) \in DOMAIN u
      <4> DEFINE d == 3 - c
      <4>1. d \in {1, 2} /\ Append(q, d) \in DOMAIN t
        BY <3>4
      <4> HIDE DEF d
      <4>2. Append(f, d) \in DOMAIN u
        BY <1>2, <3>2, <4>1, MovedInner DEF u
      <4> QED BY <4>2 DEF d
    <3>6. f \in DOMAIN u
      BY <2>1, <3>2
    <3> QED BY <3>5, <3>6 DEF f, c
  <2> HIDE DEF S
  <2>8. u \in [DOMAIN u -> Nodes]
    BY <2>3
  <2> QED BY <2>4, <2>5, <2>6, <2>7, <2>8 DEF Binary, u
<1> QED BY <1>1, <1>2

\* Those that remain keep their order.
LEMMA MovedInOrder ==
  ASSUME NEW t, Binary(t), NEW p \in DOMAIN t, p # << >>,
         NEW q \in Remaining(t, p), NEW r \in Remaining(t, p), Precedes(q, r)
  PROVE  Precedes(Moved(t, p, q), Moved(t, p, r))
<1> DEFINE m == Moved(t, p, q)  n == Moved(t, p, r)
<1>1. /\ q \in Path /\ r \in Path /\ Len(q) \in Nat /\ Len(r) \in Nat /\ Len(p) \in Nat \ {0}
  BY RemainingByElement, PathElements, PathEnds
<1>2. PICK k \in 1 .. Len(q) :
        k <= Len(r) /\ q[k] < r[k] /\ \A j \in 1 .. k - 1 : q[j] = r[j]
  BY <1>1, PrecedesByElement
<1>3. k \in 1 .. Len(r)
  BY <1>1, <1>2
<1>4. /\ m \in Path /\ (~ Under(p, q) => m = q)
      /\ Under(p, q) =>
           /\ Len(m) = Len(q) - 1 /\ \A j \in 1 .. Len(p) - 1 : m[j] = q[j]
           /\ \A j \in Len(p) .. Len(q) - 1 : m[j] = q[j + 1]
           /\ q[Len(p)] = 3 - p[Len(p)]
  BY MovedByElement
<1>5. /\ n \in Path /\ (~ Under(p, r) => n = r)
      /\ Under(p, r) =>
           /\ Len(n) = Len(r) - 1 /\ \A j \in 1 .. Len(p) - 1 : n[j] = r[j]
           /\ \A j \in Len(p) .. Len(r) - 1 : n[j] = r[j + 1]
           /\ r[Len(p)] = 3 - p[Len(p)]
  BY MovedByElement
<1> HIDE DEF m, n
\* Both lie under the split, and part beyond it.
<1>6. CASE Under(p, q) /\ Under(p, r)
  <2>1. k > Len(p)
    <3> SUFFICES ASSUME k <= Len(p) PROVE FALSE
      BY <1>1
    <3>1. q[k] = r[k]
      <4>1. CASE k = Len(p)
        BY <1>4, <1>5, <1>6, <4>1
      <4>2. CASE k # Len(p)
        <5>1. k \in 1 .. Len(p) - 1
          BY <1>1, <4>2
        <5> QED BY <1>6, <5>1 DEF Under
      <4> QED BY <4>1, <4>2
    <3>2. q[k] \in {1, 2} /\ r[k] \in {1, 2}
      BY <1>1, <1>3, PathElements
    <3> QED BY <1>2, <3>1, <3>2
  <2> DEFINE i == k - 1
  <2>2. /\ i \in 1 .. Len(m) /\ i <= Len(n) /\ i + 1 = k
        /\ i \in Len(p) .. Len(q) - 1 /\ i \in Len(p) .. Len(r) - 1
    BY <1>1, <1>2, <1>4, <1>5, <1>6, <2>1
  <2> HIDE DEF i
  <2>3. m[i] < n[i]
    <3>1. m[i] = q[k] /\ n[i] = r[k]
      BY <1>4, <1>5, <1>6, <2>2
    <3> QED BY <1>2, <3>1
  <2>4. \A j \in 1 .. i - 1 : m[j] = n[j]
    <3> TAKE j \in 1 .. i - 1
    <3>1. CASE j < Len(p)
      <4>1. j \in 1 .. Len(p) - 1 /\ j \in 1 .. k - 1
        BY <1>1, <2>2, <3>1
      <4>2. m[j] = q[j] /\ n[j] = r[j] /\ q[j] = r[j]
        BY <1>2, <1>4, <1>5, <1>6, <4>1
      <4> QED BY <4>2
    <3>2. CASE Len(p) <= j
      <4>1. j \in Len(p) .. Len(q) - 1 /\ j \in Len(p) .. Len(r) - 1 /\ j + 1 \in 1 .. k - 1
        BY <1>1, <2>2, <3>2
      <4>2. m[j] = q[j + 1] /\ n[j] = r[j + 1] /\ q[j + 1] = r[j + 1]
        BY <1>2, <1>4, <1>5, <1>6, <4>1
      <4> QED BY <4>2
    <3> QED BY <1>1, <2>2, <3>1, <3>2
  <2> QED BY <1>4, <1>5, <2>2, <2>3, <2>4, PrecedesByElement DEF m, n
<1>7. CASE ~ Under(p, q) /\ ~ Under(p, r)
  BY <1>4, <1>5, <1>7 DEF m, n
\* Only one lies under it, and the other leaves it before.
<1>8. ASSUME Under(p, q) \/ Under(p, r), ~ (Under(p, q) /\ Under(p, r))
      PROVE  k < Len(p)
  <2> SUFFICES ASSUME Len(p) <= k PROVE FALSE
    BY <1>1
  <2>1. \A j \in 1 .. Len(p) - 1 : q[j] = r[j]
    BY <1>1, <1>2
  <2>2. Len(p) <= Len(q) /\ Len(p) <= Len(r)
    BY <1>1, <1>2
  <2> QED BY <1>8, <2>1, <2>2 DEF Under
<1>9. CASE Under(p, q) /\ ~ Under(p, r)
  <2>1. /\ k \in 1 .. Len(p) - 1 /\ \A j \in 1 .. k - 1 : j \in 1 .. Len(p) - 1
    BY <1>1, <1>8, <1>9
  <2>2. k \in 1 .. Len(m) /\ k <= Len(n)
    BY <1>1, <1>2, <1>4, <1>5, <1>9, <2>1 DEF Under
  <2>3. m[k] = q[k] /\ n[k] = r[k] /\ \A j \in 1 .. k - 1 : m[j] = q[j] /\ n[j] = r[j]
    BY <1>4, <1>5, <1>9, <2>1
  <2>4. m[k] < n[k] /\ \A j \in 1 .. k - 1 : m[j] = n[j]
    BY <1>2, <2>3
  <2> QED BY <1>4, <1>5, <2>2, <2>4, PrecedesByElement DEF m, n
<1>10. CASE ~ Under(p, q) /\ Under(p, r)
  <2>1. /\ k \in 1 .. Len(p) - 1 /\ \A j \in 1 .. k - 1 : j \in 1 .. Len(p) - 1
    BY <1>1, <1>8, <1>10
  <2>2. k \in 1 .. Len(m) /\ k <= Len(n)
    BY <1>1, <1>2, <1>4, <1>5, <1>10, <2>1 DEF Under
  <2>3. m[k] = q[k] /\ n[k] = r[k] /\ \A j \in 1 .. k - 1 : m[j] = q[j] /\ n[j] = r[j]
    BY <1>4, <1>5, <1>10, <2>1
  <2>4. m[k] < n[k] /\ \A j \in 1 .. k - 1 : m[j] = n[j]
    BY <1>2, <2>3
  <2> QED BY <1>4, <1>5, <2>2, <2>4, PrecedesByElement DEF m, n
<1> QED BY <1>6, <1>7, <1>9, <1>10

LEMMA RemovePaneShows ==
  ASSUME NEW t, Binary(t), NEW p, IsLeaf(t, p), p # << >>
  PROVE  Panes(RemovePane(t, p)) = RemoveAt(Panes(t), Before(t, p) + 1)
<1> DEFINE u == RemovePane(t, p)  S == Remaining(t, p)  L == Leaves(t)
           V == Widgets \cup {Empty}  n == Cardinality(L)  order == Row(t)
           moved(q) == Moved(t, p, q)
<1>1. p \in DOMAIN t /\ p \in L /\ p \in Path
  BY DEF IsLeaf, Leaves, Binary
<1>2. Binary(u)
  BY RemovePaneBinary
<1>3. DOMAIN u = {moved(q) : q \in S}
  BY <1>1, RemovePaneDomain
<1>4. \A q \in S : moved(q) \in DOMAIN u /\ u[moved(q)].widget = t[q].widget
  BY <1>1, RemovePaneNodes
<1>5. \A q \in S : IsLeaf(t, q) <=> IsLeaf(u, moved(q))
  <2> TAKE q \in S
  <2>1. Append(q, 1) \in DOMAIN t <=> Append(moved(q), 1) \in DOMAIN u
    BY <1>1, MovedInner
  <2>2. q \in DOMAIN t /\ moved(q) \in DOMAIN u
    BY <1>1, <1>3, RemainingByElement
  <2> HIDE DEF u, moved
  <2> QED BY <2>1, <2>2 DEF IsLeaf
<1>6. \A q \in L : q # p <=> q \in S
  <2> TAKE q \in L
  <2>1. q \in DOMAIN t /\ q \in Path /\ IsLeaf(t, q) /\ Len(q) \in Nat /\ Len(p) \in Nat \ {0}
    BY <1>1, PathEnds, PathElements DEF Leaves, Binary
  <2>2. ASSUME q # p PROVE q \in S
    <3>1. q # Front(p)
      <4> SUFFICES ASSUME q = Front(p) PROVE FALSE
        OBVIOUS
      <4>1. p = Append(q, Last(p)) /\ Last(p) \in {1, 2}
        BY <1>1, PathEnds
      <4> QED BY <1>1, <2>1, <4>1, LeafOfTwo
    <3>2. ~ (Under(p, q) /\ q[Len(p)] = p[Len(p)])
      <4> SUFFICES ASSUME Under(p, q), q[Len(p)] = p[Len(p)] PROVE FALSE
        OBVIOUS
      <4>1. Len(p) <= Len(q) /\ \A k \in 1 .. Len(p) : p[k] = q[k]
        BY <2>1 DEF Under
      <4> QED BY <1>1, <2>1, <2>2, <4>1, LeafIsEnd
    <3> QED BY <1>1, <2>1, <3>1, <3>2, RemainingByElement
  <2>3. ASSUME q = p PROVE q \notin S
    BY <1>1, <2>1, <2>3, RemainingByElement DEF Under
  <2> QED BY <2>2, <2>3
<1> HIDE DEF u, S
<1>7. \A x : x \in Leaves(u) <=> \E q \in L \ {p} : moved(q) = x
  <2>1. \A q : q \in L <=> q \in DOMAIN t /\ IsLeaf(t, q)
    BY DEF Leaves
  <2>2. \A x : x \in Leaves(u) <=> x \in DOMAIN u /\ IsLeaf(u, x)
    BY DEF Leaves
  <2>3. \A q \in S : q \in DOMAIN t
    BY <1>1, RemainingByElement DEF S
  <2> HIDE DEF moved, L
  <2> QED BY <1>3, <1>5, <1>6, <2>1, <2>2, <2>3
<1>8. /\ n \in Nat /\ order \in [1 .. n -> L]
      /\ \A q \in L : \E i \in 1 .. n : order[i] = q
      /\ \A i, j \in 1 .. n : i < j => Precedes(order[i], order[j])
      /\ \A i \in 1 .. n : Before(t, order[i]) = i - 1
      /\ \A i, j \in 1 .. n : order[i] = order[j] => i = j
      /\ Panes(t) = [k \in 1 .. n |-> t[order[k]].widget]
      /\ Panes(t) \in Seq(V) /\ Len(Panes(t)) = n
  BY RowOfLeaves
<1> HIDE DEF n, order, L, moved
<1>9. PICK i \in 1 .. n : order[i] = p
  BY <1>1, <1>8
<1> DEFINE old(k) == IF k < i THEN k ELSE k + 1
           new == [k \in 1 .. n - 1 |-> moved(order[old(k)])]
<1>10. \A k \in 1 .. n - 1 : old(k) \in 1 .. n /\ old(k) # i
  BY <1>8
<1>11. \A k, l \in 1 .. n - 1 : k < l => old(k) < old(l)
  BY <1>8
<1>12. \A j \in 1 .. n : j # i => \E k \in 1 .. n - 1 : old(k) = j
  <2> TAKE j \in 1 .. n
  <2> HAVE j # i
  <2>1. CASE j < i
    <3>1. j \in 1 .. n - 1 /\ old(j) = j
      BY <1>8, <2>1
    <3> QED BY <3>1
  <2>2. CASE j > i
    <3>1. j - 1 \in 1 .. n - 1 /\ old(j - 1) = j
      BY <1>8, <2>2
    <3> QED BY <3>1
  <2> QED BY <2>1, <2>2
<1> HIDE DEF old
<1>13. \A k \in 1 .. n - 1 : order[old(k)] \in L /\ order[old(k)] # p /\ order[old(k)] \in S
  BY <1>6, <1>8, <1>9, <1>10
<1>14. new \in [1 .. n - 1 -> Leaves(u)] /\ \A k \in 1 .. n - 1 : new[k] = moved(order[old(k)])
  BY <1>7, <1>13
<1> HIDE DEF new
<1>15. \A x \in Leaves(u) : \E k \in 1 .. n - 1 : new[k] = x
  <2> TAKE x \in Leaves(u)
  <2>1. PICK q \in L \ {p} : moved(q) = x
    BY <1>7
  <2>2. PICK j \in 1 .. n : order[j] = q
    BY <1>8
  <2>3. PICK k \in 1 .. n - 1 : old(k) = j
    BY <1>9, <1>12, <2>1, <2>2
  <2> QED BY <1>14, <2>1, <2>2, <2>3
<1>16. \A k, l \in 1 .. n - 1 : k < l => Precedes(new[k], new[l])
  <2> TAKE k, l \in 1 .. n - 1
  <2> HAVE k < l
  <2>1. Precedes(order[old(k)], order[old(l)])
    BY <1>8, <1>10, <1>11
  <2>2. order[old(k)] \in S /\ order[old(l)] \in S
    BY <1>13
  <2>3. Precedes(moved(order[old(k)]), moved(order[old(l)]))
    BY <1>1, <2>1, <2>2, MovedInOrder DEF S, moved
  <2> QED BY <1>14, <2>3
<1>17. /\ Panes(u) \in Seq(V) /\ Len(Panes(u)) = n - 1
       /\ \A k \in 1 .. n - 1 : Panes(u)[k] = u[new[k]].widget
  <2> DEFINE m == n - 1
  <2>1. m \in Nat
    BY <1>8
  <2>2. /\ new \in [1 .. m -> Leaves(u)] /\ \A x \in Leaves(u) : \E k \in 1 .. m : new[k] = x
        /\ \A k, l \in 1 .. m : k < l => Precedes(new[k], new[l])
    BY <1>14, <1>15, <1>16
  <2> HIDE DEF m
  <2>3. /\ Panes(u) \in Seq(V) /\ Len(Panes(u)) = m
        /\ \A k \in 1 .. m : Panes(u)[k] = u[new[k]].widget
    BY <1>2, <2>1, <2>2, RowIs
  <2> QED BY <2>3 DEF m
<1> DEFINE P == Panes(t)  Q == RemoveAt(P, i)
<1>18. /\ Q \in Seq(V) /\ Len(Q) = n - 1
       /\ \A k \in 1 .. i - 1 : Q[k] = P[k]
       /\ \A k \in i .. n - 1 : Q[k] = P[k + 1]
  <2>1. P \in Seq(V) /\ Len(P) = n /\ i \in 1 .. Len(P)
    BY <1>8
  <2> HIDE DEF P, V
  <2>2. /\ RemoveAt(P, i) \in Seq(V) /\ Len(RemoveAt(P, i)) = Len(P) - 1
        /\ \A k \in 1 .. i - 1 : RemoveAt(P, i)[k] = P[k]
        /\ \A k \in i .. Len(P) - 1 : RemoveAt(P, i)[k] = P[k + 1]
    BY <2>1, RemoveByElement
  <2> QED BY <2>1, <2>2
<1>19. ASSUME NEW k \in 1 .. n - 1 PROVE Panes(u)[k] = Q[k]
  <2>1. Panes(u)[k] = t[order[old(k)]].widget
    <3>1. order[old(k)] \in S /\ new[k] = moved(order[old(k)])
      BY <1>13, <1>14
    <3> QED BY <3>1, <1>4, <1>17
  <2>2. P[old(k)] = t[order[old(k)]].widget
    BY <1>8, <1>10
  <2> HIDE DEF P, Q
  <2>3. Q[k] = P[old(k)]
    <3>1. CASE k < i
      BY <1>18, <3>1 DEF old
    <3>2. CASE ~ (k < i)
      BY <1>18, <3>2 DEF old
    <3> QED BY <3>1, <3>2
  <2> QED BY <2>1, <2>2, <2>3
<1>20. Panes(u) = Q
  <2> HIDE DEF Q, V
  <2> QED BY <1>17, <1>18, <1>19, SeqEqual
<1>21. Before(t, p) + 1 = i
  BY <1>8, <1>9
<1> QED BY <1>20, <1>21 DEF u
-----------------------------------------------------------------------------
(* What the buttons and the divider do to a tree. *)

LEMMA ApplyKeeps ==
  ASSUME NEW t, Binary(t), NEW q, PostTyped(q)
  PROVE  Binary(Apply(t, q))
<1>1. CASE q.op = "split"
  BY <1>1, SplitLeafKeeps DEF Apply
<1>2. CASE q.op = "remove"
  BY <1>2, RemovePaneBinary DEF Apply
<1>3. CASE q.op = "widget"
  <2>1. Apply(t, q) = SetWidget(t, q.path, q.arg[1])
    BY <1>3 DEF Apply
  <2> QED BY <1>3, <2>1, SetWidgetKeeps DEF PostTyped
<1>4. CASE q.op = "weights"
  <2>1. Apply(t, q) = SetWeights(t, q.path, q.arg)
    BY <1>4 DEF Apply
  <2> QED BY <1>4, <2>1, SetWeightsKeeps DEF PostTyped
<1> QED BY <1>1, <1>2, <1>3, <1>4 DEF PostTyped

\* A button does to the row of panes what it says.
LEMMA ButtonShows ==
  ASSUME NEW t, Binary(t), NEW q, PostTyped(q), q.op # "weights", IsLeaf(t, q.path),
         q.op = "remove" => q.path # << >>
  PROVE  Panes(Apply(t, q)) = Wish(t, q.op, q.path, q.arg)
<1>1. CASE q.op = "split"
  BY <1>1, SplitLeafKeeps DEF Apply, Wish
<1>2. CASE q.op = "remove"
  BY <1>2, RemovePaneShows DEF Apply, Wish
<1>3. CASE q.op = "widget"
  <2>1. Apply(t, q) = SetWidget(t, q.path, q.arg[1])
    BY <1>3 DEF Apply
  <2>2. Wish(t, q.op, q.path, q.arg) = [Panes(t) EXCEPT ![Before(t, q.path) + 1] = q.arg[1]]
    BY <1>3 DEF Wish
  <2> QED BY <1>3, <2>1, <2>2, SetWidgetKeeps DEF PostTyped
<1> QED BY <1>1, <1>2, <1>3 DEF PostTyped

LEMMA DividerShows ==
  ASSUME NEW t, Binary(t), NEW q, PostTyped(q), q.op = "weights"
  PROVE  /\ Apply(t, q) = SetWeights(t, q.path, q.arg)
         /\ Panes(Apply(t, q)) = Panes(t)
<1>1. Apply(t, q) = SetWeights(t, q.path, q.arg)
  BY DEF Apply
<1> QED BY <1>1, SetWeightsKeeps DEF PostTyped

\* A tree with two children at every split is one that layout.Parse accepts.
LEMMA BinaryIsWellFormed ==
  ASSUME NEW t, Binary(t)
  PROVE  WellFormed(t)
<1>1. IsTree(t)
  <2> SUFFICES ASSUME NEW p \in DOMAIN t, p # << >>
               PROVE  /\ Front(p) \in DOMAIN t /\ Last(p) \in Nat \ {0}
                      /\ Last(p) > 1 => Append(Front(p), Last(p) - 1) \in DOMAIN t
    BY DEF Binary, IsTree
  <2>1. p \in Path /\ Front(p) \in DOMAIN t /\ Append(Front(p), 3 - Last(p)) \in DOMAIN t
    BY DEF Binary
  <2>2. Last(p) \in {1, 2}
    BY <2>1, PathEnds
  <2>3. CASE Last(p) = 2
    BY <2>1, <2>3
  <2> QED BY <2>1, <2>2, <2>3
<1>2. Valid(t)
  <2> SUFFICES ASSUME NEW p \in DOMAIN t, Append(p, 1) \in DOMAIN t
               PROVE  Append(p, 2) \in DOMAIN t
    BY DEF Valid
  <2>1. p \in Path /\ 1 \in {1, 2}
    BY DEF Binary
  <2> QED BY <2>1, Kin
<1> QED BY <1>1, <1>2 DEF WellFormed, Binary, Nodes

-----------------------------------------------------------------------------
(* Every action of the editor keeps the invariant. *)

LEMMA LayoutInitInv == LayoutInit => LayoutInv
<1> SUFFICES ASSUME LayoutInit PROVE LayoutInv
  OBVIOUS
<1>1. Binary(Single(Empty))
  <2>1. DOMAIN Single(Empty) = {<< >>} /\ Single(Empty)[<< >>] = Pane(Empty)
    BY DEF Single
  <2>2. Pane(Empty) \in Nodes
    BY LayoutBounds DEF Pane, Nodes
  <2>3. << >> \in Path
    BY DEF Path
  <2>4. IsFiniteSet({<< >>})
    BY FS_Singleton
  <2> QED BY <2>1, <2>2, <2>3, <2>4 DEF Binary, Single
<1>2. ASSUME NEW v \in Widgets, NEW w \in Widgets
      PROVE  Binary(SetWeights(Split(Single(Empty), << >>, v, w), << >>, <<2 * One, One>>))
  <2> DEFINE s == Single(Empty)  root == << >>  t == SplitLeaf(s, root)
             u == Split(s, root, v, w)  two == <<2 * One, One>>
  <2>1. IsLeaf(s, root) /\ DOMAIN s = {root} /\ s[root] \in Nodes
    <3>1. Append(root, 1) # root
      BY PathAppend DEF Path
    <3>2. DOMAIN s = {root} /\ s[root] = Pane(Empty)
      BY DEF Single
    <3> HIDE DEF s, root
    <3> QED BY <3>1, <3>2, LayoutBounds DEF IsLeaf, Pane, Nodes
  <2>2. Binary(t)
    BY <1>1, SplitLeafKeeps
  <2>3. DOMAIN t = DOMAIN u
    BY <2>1 DEF SplitLeaf, Split
  <2>4. u \in [DOMAIN u -> Nodes]
    <3>1. Pane(v) \in Nodes /\ Pane(w) \in Nodes
      BY LayoutBounds DEF Pane, Nodes
    <3>2. [s[root] EXCEPT !.widget = Empty] \in Nodes
      BY <2>1 DEF Nodes
    <3>3. Append(root, 1) # Append(root, 2) /\ root # Append(root, 1) /\ root # Append(root, 2)
      BY PathAppend DEF Path
    <3> HIDE DEF s, root
    <3>4. \A q \in {root, Append(root, 1), Append(root, 2)} : u[q] \in Nodes
      BY <2>1, <3>1, <3>2, <3>3 DEF Split
    <3> QED BY <2>1, <3>4 DEF Split
  <2>5. Binary(u)
    <3> HIDE DEF t, u
    <3> QED BY <2>2, <2>3, <2>4, SameShape
  <2>6. Wide(two)
    <3>1. One \in Nat \ {0}
      BY LayoutBounds
    <3>2. 2 * One \in Nat \ {0}
      BY <3>1
    <3> QED BY <3>1, <3>2 DEF Wide
  <2> HIDE DEF u, two
  <2> QED BY <2>5, <2>6, SetWeightsKeeps DEF u, two
<1>3. Binary(stored)
  BY <1>1, <1>2 DEF LayoutInit
<1>4. Posted = {}
  BY DEF LayoutInit, Posted, NoPost
<1>5. LayoutTyped
  <2>1. clicks \in [Editors -> Nat] /\ \A e \in Editors : clicks[e] <= MaxClicks[e]
    BY LayoutBounds DEF LayoutInit
  <2>2. edit = [r \in Posts |-> edit[r]] /\ \A r \in Posts : edit[r].step = "idle"
    BY DEF LayoutInit, NoPost
  <2>3. drag = [e \in Editors |-> drag[e]] /\ \A e \in Editors : DragTyped(drag[e])
    BY DEF LayoutInit, NotHeld, DragTyped
  <2> QED BY <1>3, <2>1, <2>2, <2>3 DEF LayoutTyped, LayoutInit
<1> QED BY <1>4, <1>5 DEF LayoutInv, FreshShows, FreshAlone, LayoutInit

LEMMA LayoutStutters ==
  ASSUME LayoutInv, UNCHANGED layoutVars
  PROVE  LayoutInv'
BY DEF layoutVars, LayoutInv, LayoutTyped, FreshShows, FreshAlone, FreshKnows, Posted

\* A free post carries no request.
LEMMA FreeIsIdle ==
  ASSUME NEW r \in Posts, FreePost(r), Posted # Posts
  PROVE  edit[r].step = "idle"
<1>1. \E q \in Posts : edit[q].step = "idle"
  BY DEF Posted
<1> QED BY <1>1 DEF FreePost

\* One more edit from a page.
LEMMA CountClick ==
  ASSUME LayoutInv, NEW e \in Editors, clicks[e] < MaxClicks[e],
         clicks' = [clicks EXCEPT ![e] = @ + 1]
  PROVE  clicks' \in [Editors -> Nat] /\ \A d \in Editors : clicks'[d] <= MaxClicks[d]
<1>1. clicks \in [Editors -> Nat] /\ \A d \in Editors : clicks[d] <= MaxClicks[d]
  BY DEF LayoutInv, LayoutTyped
<1>2. \A d \in Editors : clicks'[d] = IF d = e THEN clicks[e] + 1 ELSE clicks[d]
  BY <1>1
<1>3. clicks[e] \in Nat /\ MaxClicks[e] \in Nat
  BY <1>1, LayoutBounds
<1>4. clicks[e] + 1 \in Nat /\ clicks[e] + 1 <= MaxClicks[e]
  BY <1>3
<1> QED BY <1>1, <1>2, <1>4

\* A request that is sent from a page e: nobody else's page can be trusted then.
LEMMA SentFresh ==
  ASSUME LayoutInv, NEW e \in Editors, NEW seen, NEW r \in Posts, edit[r].step = "idle",
         NEW q, q.step = "sent", q.by = e, edit' = [edit EXCEPT ![r] = q],
         fresh' = Trusted(e, seen),
         Posted = {} /\ e \in fresh /\ seen => FreshKnows(r)'
  PROVE  FreshShows' /\ FreshAlone'
<1>1. edit = [p \in Posts |-> edit[p]]
  BY DEF LayoutInv, LayoutTyped
<1>2. edit'[r] = q /\ \A p \in Posts : p # r => edit'[p] = edit[p]
  BY <1>1
<1>3. Posted' = Posted \cup {r}
  BY <1>2 DEF Posted
<1>4. FreshShows'
  BY <1>3 DEF FreshShows
<1>5. FreshAlone'
  <2> SUFFICES ASSUME NEW d \in fresh' PROVE \A p \in Posted' : Posted' = {p} /\ edit'[p].by = d /\ FreshKnows(p)'
    BY DEF FreshAlone
  <2>1. Posted = {} /\ e \in fresh /\ seen /\ d = e
    BY DEF Trusted
  <2> QED BY <1>2, <1>3, <2>1
<1> QED BY <1>4, <1>5

LEMMA ClickKeeps ==
  ASSUME LayoutInv, NEW e \in Editors, NEW r \in Posts, NEW op, NEW path \in DOMAIN page[e],
         NEW arg, op \in {"split", "remove", "widget"},
         op = "widget" => arg[1] \in Widgets \cup {Empty},
         Click(e, r, op, path, arg)
  PROVE  LayoutInv'
<1> DEFINE q == [step |-> "sent", by |-> e, op |-> op, path |-> path, arg |-> arg,
                 tree |-> << >>, wish |-> Wish(page[e], op, path, arg)]
<1>1. /\ edit' = [edit EXCEPT ![r] = q] /\ fresh' = Trusted(e, TRUE)
      /\ clicks' = [clicks EXCEPT ![e] = @ + 1] /\ clicks[e] < MaxClicks[e]
      /\ stored' = stored /\ page' = page /\ drag' = drag
      /\ IsLeaf(page[e], path) /\ (op = "remove" => path # << >>)
  BY DEF Click
<1>2. edit[r].step = "idle"
  BY FreeIsIdle DEF Click
<1>3. path \in Path
  BY DEF LayoutInv, LayoutTyped, Binary
<1>4. PostTyped(q) /\ q.step = "sent" /\ q.by = e /\ q.op = op /\ q.path = path /\ q.arg = arg
      /\ q.wish = Wish(page[e], op, path, arg)
  BY <1>3 DEF PostTyped
<1> HIDE DEF q
<1>5. /\ edit' = [p \in Posts |-> edit'[p]] /\ edit'[r] = q
      /\ \A p \in Posts : p # r => edit'[p] = edit[p]
  BY <1>1 DEF LayoutInv, LayoutTyped
<1>6. LayoutTyped'
  <2>1. fresh' \subseteq Editors
    BY <1>1 DEF Trusted
  <2>2. clicks' \in [Editors -> Nat] /\ \A d \in Editors : clicks'[d] <= MaxClicks[d]
    BY <1>1, CountClick
  <2>3. \A p \in Posts : edit'[p].step = "idle" \/ PostTyped(edit'[p])
    BY <1>4, <1>5 DEF LayoutInv, LayoutTyped
  <2> QED BY <1>1, <1>5, <2>1, <2>2, <2>3 DEF LayoutInv, LayoutTyped
<1>7. Posted = {} /\ e \in fresh => FreshKnows(r)'
  <2> SUFFICES ASSUME Posted = {}, e \in fresh PROVE FreshKnows(r)'
    OBVIOUS
  <2>1. page[e] = stored
    BY DEF LayoutInv, FreshShows
  <2> QED BY <1>1, <1>4, <1>5, <2>1 DEF FreshKnows
<1>8. FreshShows' /\ FreshAlone'
  BY <1>1, <1>2, <1>4, <1>7, SentFresh
<1> QED BY <1>6, <1>8 DEF LayoutInv

LEMMA HoldKeeps ==
  ASSUME LayoutInv, NEW e \in Editors, NEW p \in DOMAIN page[e], p # << >>,
         Hold(e, Front(p), Last(p))
  PROVE  LayoutInv'
<1> DEFINE t == page[e]  f == Front(p)  i == Last(p)  w == WeightsOf(t, f)
           d == [held |-> TRUE, attached |-> TRUE, path |-> f, divider |-> i, weights |-> w]
<1>1. Binary(t) /\ p \in Path /\ f \in Path /\ i \in {1, 2}
  BY PathEnds DEF LayoutInv, LayoutTyped, Binary
<1>2. /\ Append(f, i) \in DOMAIN t /\ Append(f, i + 1) \in DOMAIN t
      /\ drag' = [drag EXCEPT ![e] = d]
      /\ UNCHANGED <<stored, page, edit, clicks, fresh>>
  BY DEF Hold
<1>3. Wide(w)
  <2> SUFFICES ASSUME NEW k \in DOMAIN w PROVE w[k] \in Nat \ {0}
    BY DEF Wide
  <2>1. w[k] = t[Append(f, k)].weight
    BY DEF WeightsOf
  <2>2. PICK q \in Children(t, f) : k = Last(q)
    BY DEF WeightsOf
  <2>3. q \in DOMAIN t /\ q # << >> /\ Front(q) = f /\ q \in Path
    BY <1>1, <2>2 DEF Children, Binary
  <2>4. Append(f, k) \in DOMAIN t
    BY <2>2, <2>3, PathEnds
  <2>5. t[Append(f, k)] \in Nodes
    BY <1>1, <2>4 DEF Binary
  <2> HIDE DEF t, f, w
  <2> QED BY <2>1, <2>5 DEF Nodes
<1>4. i + 1 \in {1, 2}
  <2>1. CASE i = 2
    <3> DEFINE z == Append(f, 3)
    <3>1. z \in Path
      BY <1>1, <1>2, <2>1 DEF Binary
    <3>2. Len(z) = Len(f) + 1 /\ z[Len(f) + 1] = 3 /\ Len(f) \in Nat
      <4>1. f \in Seq({1, 2, 3}) /\ 3 \in {1, 2, 3}
        BY <1>1, PathElements DEF Path
      <4> HIDE DEF f
      <4> QED BY <4>1, AppendProperties
    <3> HIDE DEF z, f
    <3>3. z[Len(f) + 1] \in {1, 2}
      BY <3>1, <3>2, PathElements
    <3> QED BY <3>2, <3>3
  <2> QED BY <1>1, <2>1
<1>5. {i, i + 1} \subseteq DOMAIN w
  <2>1. \A c \in {1, 2} : Append(f, c) \in DOMAIN t => c \in DOMAIN w
    <3> SUFFICES ASSUME NEW c \in {1, 2}, Append(f, c) \in DOMAIN t PROVE c \in DOMAIN w
      OBVIOUS
    <3>1. Append(f, c) \in Children(t, f) /\ Last(Append(f, c)) = c
      BY <1>1, PathAppend DEF Children
    <3> QED BY <3>1 DEF WeightsOf
  <2> HIDE DEF t, f, w, i
  <2> QED BY <1>1, <1>2, <1>4, <2>1
<1>6. DragTyped(d)
  <2> HIDE DEF t, f, w, i
  <2> QED BY <1>1, <1>3, <1>5 DEF DragTyped
<1> HIDE DEF d
<1>7. drag' = [x \in Editors |-> drag'[x]] /\ \A x \in Editors : DragTyped(drag'[x])
  BY <1>2, <1>6 DEF LayoutInv, LayoutTyped
<1>8. LayoutTyped'
  BY <1>2, <1>7 DEF LayoutInv, LayoutTyped
<1>9. FreshShows' /\ FreshAlone'
  BY <1>2 DEF LayoutInv, FreshShows, FreshAlone, FreshKnows, Posted
<1> QED BY <1>8, <1>9 DEF LayoutInv

\* The two panes share their space anew.
LEMMA SharedSpace ==
  ASSUME NEW weights, Wide(weights), NEW i, {i, i + 1} \subseteq DOMAIN weights,
         NEW w \in 1 .. (weights[i] + weights[i + 1]) - 1
  PROVE  Wide([weights EXCEPT ![i] = w, ![i + 1] = (weights[i] + weights[i + 1]) - w])
<1> DEFINE j == i + 1  a == weights[i]  b == weights[j]
           z == [weights EXCEPT ![i] = w, ![j] = (a + b) - w]
<1>1. a \in Nat \ {0} /\ b \in Nat \ {0}
  BY DEF Wide
<1>2. w \in 1 .. (a + b) - 1
  OBVIOUS
<1> SUFFICES Wide(z)
  OBVIOUS
<1> HIDE DEF a, b
<1>3. w \in Nat \ {0} /\ (a + b) - w \in Nat \ {0}
  BY <1>1, <1>2
<1> HIDE DEF j
<1>4. DOMAIN z = DOMAIN weights
  OBVIOUS
<1>5. \A k \in DOMAIN weights : z[k] \in {weights[k], w, (a + b) - w}
  OBVIOUS
<1> HIDE DEF z
<1> QED BY <1>3, <1>4, <1>5 DEF Wide

LEMMA DropKeeps ==
  ASSUME LayoutInv, NEW e \in Editors, NEW r \in Posts, NEW w, Drop(e, r, w)
  PROVE  LayoutInv'
<1> DEFINE d == drag[e]
           sum == d.weights[d.divider] + d.weights[d.divider + 1]
           weights == [d.weights EXCEPT ![d.divider] = w, ![d.divider + 1] = sum - w]
           q == [step |-> "sent", by |-> e, op |-> "weights", path |-> d.path, arg |-> weights,
                 tree |-> << >>, wish |-> Panes(page[e])]
           here == SetWeights(page[e], d.path, weights)
<1>1. /\ edit' = [edit EXCEPT ![r] = q] /\ fresh' = Trusted(e, d.attached)
      /\ clicks' = [clicks EXCEPT ![e] = @ + 1] /\ clicks[e] < MaxClicks[e]
      /\ stored' = stored /\ drag' = [drag EXCEPT ![e] = NotHeld]
      /\ page' = IF d.attached THEN [page EXCEPT ![e] = here] ELSE page
      /\ d.held /\ w \in 1 .. sum - 1
  BY DEF Drop
<1>2. edit[r].step = "idle"
  BY FreeIsIdle DEF Drop
<1>3. d.path \in Path /\ Wide(d.weights) /\ {d.divider, d.divider + 1} \subseteq DOMAIN d.weights
  BY <1>1 DEF LayoutInv, LayoutTyped, DragTyped
<1>4. Wide(weights)
  <2> DEFINE v == d.weights  i == d.divider
  <2>1. Wide(v) /\ {i, i + 1} \subseteq DOMAIN v /\ w \in 1 .. (v[i] + v[i + 1]) - 1
    BY <1>1, <1>3
  <2>2. weights = [v EXCEPT ![i] = w, ![i + 1] = (v[i] + v[i + 1]) - w]
    OBVIOUS
  <2> HIDE DEF v, i, weights
  <2> QED BY <2>1, <2>2, SharedSpace
<1> HIDE DEF weights
<1>5. PostTyped(q) /\ q.step = "sent" /\ q.by = e /\ q.op = "weights" /\ q.path = d.path
      /\ q.arg = weights /\ q.wish = Panes(page[e])
  BY <1>3, <1>4 DEF PostTyped
<1> HIDE DEF q
<1>6. /\ edit' = [p \in Posts |-> edit'[p]] /\ edit'[r] = q
      /\ \A p \in Posts : p # r => edit'[p] = edit[p]
  BY <1>1 DEF LayoutInv, LayoutTyped
<1>7. Binary(here)
  <2>1. Binary(page[e])
    BY DEF LayoutInv, LayoutTyped
  <2> QED BY <1>4, <2>1, SetWeightsKeeps
<1> HIDE DEF here
<1>8. /\ page' = [x \in Editors |-> page'[x]] /\ \A x \in Editors : Binary(page'[x])
      /\ d.attached => page'[e] = here
  BY <1>1, <1>7 DEF LayoutInv, LayoutTyped
<1>9. LayoutTyped'
  <2>1. fresh' \subseteq Editors
    BY <1>1 DEF Trusted
  <2>2. clicks' \in [Editors -> Nat] /\ \A x \in Editors : clicks'[x] <= MaxClicks[x]
    BY <1>1, CountClick
  <2>3. \A p \in Posts : edit'[p].step = "idle" \/ PostTyped(edit'[p])
    BY <1>5, <1>6 DEF LayoutInv, LayoutTyped
  <2>4. drag' = [x \in Editors |-> drag'[x]] /\ \A x \in Editors : DragTyped(drag'[x])
    <3>1. DragTyped(NotHeld)
      BY DEF DragTyped, NotHeld
    <3> QED BY <1>1, <3>1 DEF LayoutInv, LayoutTyped
  <2>5. Binary(stored')
    BY <1>1 DEF LayoutInv, LayoutTyped
  <2> QED BY <1>6, <1>8, <2>1, <2>2, <2>3, <2>4, <2>5 DEF LayoutTyped
<1>10. Posted = {} /\ e \in fresh /\ d.attached => FreshKnows(r)'
  <2> SUFFICES ASSUME Posted = {}, e \in fresh, d.attached PROVE FreshKnows(r)'
    OBVIOUS
  <2>1. page[e] = stored
    BY DEF LayoutInv, FreshShows
  <2>2. page'[e] = SetWeights(stored', d.path, weights) /\ q.wish = Panes(stored')
    BY <1>1, <1>5, <1>8, <2>1 DEF here
  <2> QED BY <1>5, <1>6, <2>2 DEF FreshKnows
<1>11. FreshShows' /\ FreshAlone'
  BY <1>1, <1>2, <1>5, <1>10, SentFresh
<1> QED BY <1>9, <1>11 DEF LayoutInv

\* A request goes on, or ends, whatever else happens to the trees.
LEMMA PostMoves ==
  ASSUME LayoutInv, NEW r \in Posts, NEW q, edit' = [edit EXCEPT ![r] = q],
         q.step = "idle" \/ PostTyped(q)
  PROVE  /\ edit' = [p \in Posts |-> edit'[p]] /\ edit'[r] = q
         /\ \A p \in Posts : p # r => edit'[p] = edit[p]
         /\ \A p \in Posts : edit'[p].step = "idle" \/ PostTyped(edit'[p])
         /\ Posted' = IF q.step = "idle" THEN Posted \ {r} ELSE Posted \cup {r}
<1>1. /\ edit' = [p \in Posts |-> edit'[p]] /\ edit'[r] = q
      /\ \A p \in Posts : p # r => edit'[p] = edit[p]
  BY DEF LayoutInv, LayoutTyped
<1>2. \A p \in Posts : edit'[p].step = "idle" \/ PostTyped(edit'[p])
  BY <1>1 DEF LayoutInv, LayoutTyped
<1>3. Posted' = IF q.step = "idle" THEN Posted \ {r} ELSE Posted \cup {r}
  BY <1>1 DEF Posted
<1> QED BY <1>1, <1>2, <1>3

\* One that goes on keeps what its page knows, if it did.
LEMMA OnlyFreshKnows ==
  ASSUME LayoutInv, NEW r \in Posted, fresh' = fresh, Posted' = Posted,
         edit'[r].by = edit[r].by, r \in Posts,
         fresh # {} /\ FreshKnows(r) => FreshKnows(r)'
  PROVE  FreshShows' /\ FreshAlone'
BY DEF LayoutInv, FreshShows, FreshAlone

LEMMA LoadKeeps ==
  ASSUME LayoutInv, NEW r \in Posts, Load(r)
  PROVE  LayoutInv'
<1> DEFINE old == edit[r]  t == Apply(stored, old)
           q == [old EXCEPT !.step = "loaded", !.tree = t]
<1>1. /\ old.step = "sent" /\ edit' = [edit EXCEPT ![r] = q]
      /\ UNCHANGED <<stored, page, drag, clicks, fresh>>
  BY DEF Load
<1>2. PostTyped(old) /\ Binary(stored)
  BY <1>1 DEF LayoutInv, LayoutTyped
<1>3. Binary(t)
  BY <1>2, ApplyKeeps
<1>4. /\ old.op # "weights" /\ IsLeaf(stored, old.path) /\ (old.op = "remove" => old.path # << >>)
           => Panes(t) = Wish(stored, old.op, old.path, old.arg)
      /\ old.op = "weights" =>
           t = SetWeights(stored, old.path, old.arg) /\ Panes(t) = Panes(stored)
  BY <1>2, ButtonShows, DividerShows
<1>5. /\ q.step = "loaded" /\ q.tree = t /\ q.by = old.by /\ q.op = old.op /\ q.path = old.path
      /\ q.arg = old.arg /\ q.wish = old.wish
  BY DEF LayoutInv, LayoutTyped
<1> HIDE DEF q, t
<1>6. PostTyped(q)
  BY <1>2, <1>3, <1>5 DEF PostTyped
<1>7. /\ edit' = [p \in Posts |-> edit'[p]] /\ edit'[r] = q
      /\ \A p \in Posts : edit'[p].step = "idle" \/ PostTyped(edit'[p])
      /\ Posted' = Posted \cup {r}
  BY <1>1, <1>5, <1>6, PostMoves
<1>8. LayoutTyped'
  BY <1>1, <1>7 DEF LayoutInv, LayoutTyped
<1>9. r \in Posted /\ Posted' = Posted
  BY <1>1, <1>7 DEF Posted
<1>10. ASSUME FreshKnows(r) PROVE FreshKnows(r)'
  <2>1. CASE old.op = "weights"
    <3>1. page[old.by] = SetWeights(stored, old.path, old.arg) /\ old.wish = Panes(stored)
      BY <1>1, <1>10, <2>1 DEF FreshKnows
    <3> QED BY <1>1, <1>4, <1>5, <1>7, <2>1, <3>1 DEF FreshKnows
  <2>2. CASE old.op # "weights"
    <3>1. /\ IsLeaf(stored, old.path) /\ (old.op = "remove" => old.path # << >>)
          /\ old.wish = Wish(stored, old.op, old.path, old.arg)
      BY <1>1, <1>10, <2>2 DEF FreshKnows
    <3> QED BY <1>1, <1>4, <1>5, <1>7, <2>2, <3>1 DEF FreshKnows
  <2> QED BY <2>1, <2>2
<1>11. FreshShows' /\ FreshAlone'
  BY <1>1, <1>5, <1>7, <1>9, <1>10, OnlyFreshKnows
<1> QED BY <1>8, <1>11 DEF LayoutInv

LEMMA SaveKeeps ==
  ASSUME LayoutInv, NEW r \in Posts, Save(r)
  PROVE  LayoutInv'
<1> DEFINE old == edit[r]  q == [old EXCEPT !.step = "saved"]
<1>1. old.step = "loaded" /\ UNCHANGED <<page, drag, clicks, fresh>>
  BY DEF Save
<1>2. PostTyped(old) /\ Binary(old.tree)
  BY <1>1 DEF LayoutInv, LayoutTyped, PostTyped
<1>3. stored' = old.tree /\ edit' = [edit EXCEPT ![r] = q]
  <2>1. Valid(old.tree)
    BY <1>2, BinaryIsWellFormed DEF WellFormed
  <2> QED BY <2>1 DEF Save
<1>4. /\ q.step = "saved" /\ q.tree = old.tree /\ q.by = old.by /\ q.op = old.op
      /\ q.path = old.path /\ q.arg = old.arg /\ q.wish = old.wish
  BY <1>2 DEF PostTyped
<1> HIDE DEF q
<1>5. PostTyped(q)
  BY <1>2, <1>4 DEF PostTyped
<1>6. /\ edit' = [p \in Posts |-> edit'[p]] /\ edit'[r] = q
      /\ \A p \in Posts : edit'[p].step = "idle" \/ PostTyped(edit'[p])
      /\ Posted' = Posted \cup {r}
  BY <1>3, <1>4, <1>5, PostMoves
<1>7. LayoutTyped'
  BY <1>1, <1>2, <1>3, <1>6 DEF LayoutInv, LayoutTyped
<1>8. r \in Posted /\ Posted' = Posted
  BY <1>1, <1>6 DEF Posted
<1>9. ASSUME FreshKnows(r) PROVE FreshKnows(r)'
  <2>1. Panes(old.tree) = old.wish /\ (old.op = "weights" => page[old.by] = old.tree)
    BY <1>1, <1>9 DEF FreshKnows
  <2> QED BY <1>1, <1>3, <1>4, <1>6, <2>1 DEF FreshKnows
<1>10. FreshShows' /\ FreshAlone'
  BY <1>1, <1>4, <1>6, <1>8, <1>9, OnlyFreshKnows
<1> QED BY <1>7, <1>10 DEF LayoutInv

LEMMA AnswerKeeps ==
  ASSUME LayoutInv, NEW r \in Posts, Answer(r)
  PROVE  LayoutInv'
<1> DEFINE old == edit[r]  e == old.by
<1>1. /\ old.step = "saved" /\ edit' = [edit EXCEPT ![r] = NoPost]
      /\ UNCHANGED <<stored, clicks, fresh>>
  BY DEF Answer
<1>2. PostTyped(old) /\ Binary(old.tree)
  BY <1>1 DEF LayoutInv, LayoutTyped, PostTyped
<1>3. /\ old.op = "weights" => page' = page /\ drag' = drag
      /\ old.op # "weights" => /\ page' = [page EXCEPT ![e] = old.tree]
                               /\ drag' = [drag EXCEPT ![e].attached = FALSE]
  BY DEF Answer
<1>4. NoPost.step = "idle"
  BY DEF NoPost
<1>5. /\ edit' = [p \in Posts |-> edit'[p]]
      /\ \A p \in Posts : edit'[p].step = "idle" \/ PostTyped(edit'[p])
      /\ Posted' = Posted \ {r}
  BY <1>1, <1>4, PostMoves
<1>6. page' = [x \in Editors |-> page'[x]] /\ \A x \in Editors : Binary(page'[x])
  BY <1>2, <1>3 DEF LayoutInv, LayoutTyped
<1>7. drag' = [x \in Editors |-> drag'[x]] /\ \A x \in Editors : DragTyped(drag'[x])
  <2>1. drag = [x \in Editors |-> drag[x]] /\ \A x \in Editors : DragTyped(drag[x])
    BY DEF LayoutInv, LayoutTyped
  <2>2. CASE old.op # "weights"
    <3>1. \A x \in Editors : drag'[x] = IF x = e THEN [drag[e] EXCEPT !.attached = FALSE] ELSE drag[x]
      BY <1>3, <2>1, <2>2
    <3>2. ASSUME e \in Editors PROVE DragTyped([drag[e] EXCEPT !.attached = FALSE])
      <4> DEFINE d == drag[e]  c == [d EXCEPT !.attached = FALSE]
      <4>1. DragTyped(d)
        BY <2>1, <3>2
      <4>2. c.held = d.held /\ c.path = d.path /\ c.weights = d.weights /\ c.divider = d.divider
        OBVIOUS
      <4> HIDE DEF c, d
      <4> QED BY <4>1, <4>2 DEF DragTyped, c, d
    <3> QED BY <1>3, <2>1, <2>2, <3>1, <3>2
  <2> QED BY <1>3, <2>1, <2>2
<1>8. LayoutTyped'
  BY <1>1, <1>5, <1>6, <1>7 DEF LayoutInv, LayoutTyped
<1>9. r \in Posted
  BY <1>1 DEF Posted
<1>10. ASSUME NEW d \in fresh
       PROVE  Posted = {r} /\ e = d /\ page'[d] = stored
  <2>1. Posted = {r} /\ e = d /\ FreshKnows(r) /\ d \in Editors
    BY <1>9 DEF LayoutInv, LayoutTyped, FreshAlone
  <2>2. IF old.op = "weights" THEN page[d] = stored ELSE old.tree = stored
    BY <1>1, <2>1 DEF FreshKnows
  <2> QED BY <1>3, <2>1, <2>2 DEF LayoutInv, LayoutTyped
<1>11. FreshShows' /\ FreshAlone'
  BY <1>1, <1>5, <1>10 DEF FreshShows, FreshAlone
<1> QED BY <1>8, <1>11 DEF LayoutInv

LEMMA LostKeeps ==
  ASSUME LayoutInv, NEW r \in Posts, Lost(r)
  PROVE  LayoutInv'
<1>1. /\ edit[r].step \in {"sent", "saved"} /\ edit' = [edit EXCEPT ![r] = NoPost]
      /\ fresh' = fresh \ {edit[r].by} /\ UNCHANGED <<stored, page, drag, clicks>>
  BY DEF Lost
<1>2. NoPost.step = "idle"
  BY DEF NoPost
<1>3. /\ edit' = [p \in Posts |-> edit'[p]]
      /\ \A p \in Posts : edit'[p].step = "idle" \/ PostTyped(edit'[p])
  BY <1>1, <1>2, PostMoves
<1>4. LayoutTyped'
  BY <1>1, <1>3 DEF LayoutInv, LayoutTyped
<1>5. r \in Posted
  BY <1>1 DEF Posted
<1>6. fresh' = {}
  BY <1>1, <1>5 DEF LayoutInv, FreshAlone
<1> QED BY <1>4, <1>6 DEF LayoutInv, FreshShows, FreshAlone

LEMMA OpenKeeps ==
  ASSUME LayoutInv, NEW e \in Editors, Open(e)
  PROVE  LayoutInv'
<1>1. /\ \A r \in Posted : edit[r].by # e
      /\ page' = [page EXCEPT ![e] = stored] /\ drag' = [drag EXCEPT ![e] = NotHeld]
      /\ fresh' = IF Posted = {} THEN fresh \cup {e} ELSE fresh \ {e}
      /\ stored' = stored /\ edit' = edit /\ clicks' = clicks
  BY DEF Open
<1>2. /\ page' = [x \in Editors |-> page'[x]] /\ \A x \in Editors : Binary(page'[x])
      /\ page'[e] = stored /\ \A x \in Editors : x # e => page'[x] = page[x]
  BY <1>1 DEF LayoutInv, LayoutTyped
<1>3. drag' = [x \in Editors |-> drag'[x]] /\ \A x \in Editors : DragTyped(drag'[x])
  <2>1. DragTyped(NotHeld)
    BY DEF DragTyped, NotHeld
  <2> QED BY <1>1, <2>1 DEF LayoutInv, LayoutTyped
<1>4. LayoutTyped'
  BY <1>1, <1>2, <1>3 DEF LayoutInv, LayoutTyped
<1>5. Posted' = Posted
  BY <1>1 DEF Posted
<1>6. FreshShows'
  BY <1>1, <1>2, <1>5 DEF LayoutInv, LayoutTyped, FreshShows
<1>7. FreshAlone'
  <2> SUFFICES ASSUME NEW r \in Posted, NEW d \in fresh, d # e
               PROVE  Posted = {r} /\ edit[r].by = d /\ FreshKnows(r)'
    BY <1>1, <1>5 DEF FreshAlone
  <2>1. Posted = {r} /\ edit[r].by = d /\ FreshKnows(r) /\ d \in Editors
    BY DEF LayoutInv, LayoutTyped, FreshAlone
  <2>2. page'[edit[r].by] = page[edit[r].by]
    BY <1>2, <2>1
  <2> QED BY <1>1, <2>1, <2>2 DEF FreshKnows
<1> QED BY <1>4, <1>6, <1>7 DEF LayoutInv

LEMMA LayoutStep ==
  ASSUME LayoutInv, LayoutNext
  PROVE  LayoutInv'
<1>1. ASSUME NEW e \in Editors, NEW r \in Posts, NEW path \in DOMAIN page[e],
             NEW op \in {"split", "remove"}, Click(e, r, op, path, << >>)
      PROVE  LayoutInv'
  BY <1>1, ClickKeeps
<1>2. ASSUME NEW e \in Editors, NEW r \in Posts, NEW path \in DOMAIN page[e],
             NEW w \in Widgets \cup {Empty}, Click(e, r, "widget", path, <<w>>)
      PROVE  LayoutInv'
  <2> DEFINE arg == <<w>>  op == "widget"
  <2>1. arg[1] \in Widgets \cup {Empty} /\ op \in {"split", "remove", "widget"}
    OBVIOUS
  <2>2. Click(e, r, op, path, arg)
    BY <1>2
  <2> HIDE DEF arg, op
  <2> QED BY <2>1, <2>2, ClickKeeps
<1>3. ASSUME NEW e \in Editors, NEW r \in Posts, NEW w \in 1 .. 4 * One, Drop(e, r, w)
      PROVE  LayoutInv'
  BY <1>3, DropKeeps
<1>4. ASSUME NEW e \in Editors, Open(e)
      PROVE  LayoutInv'
  BY <1>4, OpenKeeps
<1>5. ASSUME NEW e \in Editors, NEW p \in DOMAIN page[e] \ {<< >>}, Hold(e, Front(p), Last(p))
      PROVE  LayoutInv'
  BY <1>5, HoldKeeps
<1>6. ASSUME NEW r \in Posts, Load(r) \/ Save(r) \/ Answer(r) \/ Lost(r)
      PROVE  LayoutInv'
  BY <1>6, LoadKeeps, SaveKeeps, AnswerKeeps, LostKeeps
<1> QED BY <1>1, <1>2, <1>3, <1>4, <1>5, <1>6 DEF LayoutNext

\* What the invariant says of the layout's properties.
LEMMA LayoutInvImplies == LayoutInv => LayoutTypeOK /\ LayoutAsDrawn
<1> SUFFICES ASSUME LayoutInv PROVE LayoutTypeOK /\ LayoutAsDrawn
  OBVIOUS
<1>1. WellFormed(stored) /\ \A e \in Editors : WellFormed(page[e])
  BY BinaryIsWellFormed DEF LayoutInv, LayoutTyped
<1>2. \A r \in Posts : /\ edit[r].step \in {"idle", "sent", "loaded", "saved"}
                       /\ edit[r].step \in {"loaded", "saved"} => WellFormed(edit[r].tree)
  BY BinaryIsWellFormed DEF LayoutInv, LayoutTyped, PostTyped
<1>3. \A e \in Editors : clicks[e] \in 0 .. MaxClicks[e]
  <2> SUFFICES ASSUME NEW e \in Editors PROVE clicks[e] \in 0 .. MaxClicks[e]
    OBVIOUS
  <2>1. clicks[e] \in Nat /\ clicks[e] <= MaxClicks[e] /\ MaxClicks[e] \in Nat
    BY LayoutBounds DEF LayoutInv, LayoutTyped
  <2> QED BY <2>1
<1>4. LayoutTypeOK
  BY <1>1, <1>2, <1>3 DEF LayoutTypeOK, LayoutInv, LayoutTyped
<1>5. LayoutAsDrawn
  <2> SUFFICES ASSUME NEW r \in Posts, edit[r].step = "saved", Posted = {r}, edit[r].by \in fresh
               PROVE  Panes(stored) = edit[r].wish
    BY DEF LayoutAsDrawn, LayoutInv, FreshShows
  <2>1. FreshKnows(r)
    BY DEF LayoutInv, FreshAlone
  <2> QED BY <2>1 DEF FreshKnows
<1> QED BY <1>4, <1>5

-----------------------------------------------------------------------------
(* The document of a pdf widget.                                           *)

UploadStates == [step : {"new", "received", "written", "done"}, item : Items \cup {None}]
ViewerStates == [step : {"idle", "looking", "fetching"}, item : Items \cup {None}]

\* A request that is under way is for some item.
PdfInv == PdfTypeOK /\ \A v \in Viewers : viewer[v].step # "idle" => viewer[v].item # None

LEMMA PdfBounds == MaxChoices \in Nat /\ MaxForms \in Nat
BY PdfConstants

LEMMA PdfInitInv == PdfInit => PdfInv
<1> SUFFICES ASSUME PdfInit PROVE PdfInv
  OBVIOUS
<1>1. upload \in [Uploads -> UploadStates]
  BY DEF PdfInit, UploadStates
<1>2. viewer \in [Viewers -> ViewerStates] /\ \A v \in Viewers : viewer[v].step = "idle"
  BY DEF PdfInit, ViewerStates
<1>3. choices \in 0 .. MaxChoices /\ forms \in 0 .. MaxForms /\ drops \in 0 .. choices
  BY PdfBounds DEF PdfInit
<1> QED BY <1>1, <1>2, <1>3 DEF PdfInit, PdfInv, PdfTypeOK, UploadStates, ViewerStates

LEMMA UploadKeeps ==
  ASSUME PdfInv, NEW u \in Uploads,
         ReceiveUpload(u) \/ RefuseUpload(u) \/ WriteFile(u) \/ RecordUpload(u)
  PROVE  PdfInv'
<1>1. upload \in [Uploads -> UploadStates]
  BY DEF PdfInv, PdfTypeOK, UploadStates
<1>2. upload' \in [Uploads -> UploadStates]
  <2>1. row.item \in Items \cup {None}
    BY DEF PdfInv, PdfTypeOK
  <2>2. CASE ReceiveUpload(u)
    BY <1>1, <2>1, <2>2 DEF ReceiveUpload, UploadStates
  <2>3. CASE RefuseUpload(u) \/ RecordUpload(u)
    BY <1>1, <2>3 DEF RefuseUpload, RecordUpload, UploadStates
  <2>4. CASE WriteFile(u)
    BY <1>1, <2>4 DEF WriteFile, UploadStates
  <2> QED BY <2>2, <2>3, <2>4
<1>3. /\ row'.file \in Documents \cup {None} /\ row'.item \in Items \cup {None}
  BY <1>1 DEF PdfInv, PdfTypeOK, ReceiveUpload, RefuseUpload, WriteFile, RecordUpload,
              Documents, UploadStates
<1>4. disk' \in [doc : Documents, old : BOOLEAN] \cup {NoFile}
  <2>1. CASE WriteFile(u)
    <3>1. disk' = [doc |-> u, old |-> FALSE]
      BY <2>1 DEF WriteFile
    <3>2. disk' \in [doc : Documents, old : BOOLEAN]
      BY <3>1 DEF Documents
    <3> QED BY <3>2
  <2>2. CASE ~ WriteFile(u)
    BY <2>2 DEF PdfInv, PdfTypeOK, ReceiveUpload, RefuseUpload, RecordUpload
  <2> QED BY <2>1, <2>2
<1>5. UNCHANGED <<viewer, choices, forms, drops>>
  BY DEF ReceiveUpload, RefuseUpload, WriteFile, RecordUpload
<1> QED BY <1>2, <1>3, <1>4, <1>5 DEF PdfInv, PdfTypeOK, UploadStates

LEMMA RecordedChoiceKeeps ==
  ASSUME PdfInv, (\E i \in Items : Choose(i)) \/ DropFile \/ SaveForm
  PROVE  PdfInv'
<1>1. choices \in 0 .. MaxChoices /\ forms \in 0 .. MaxForms /\ drops \in 0 .. choices
  BY DEF PdfInv, PdfTypeOK
<1>2. choices' \in 0 .. MaxChoices /\ forms' \in 0 .. MaxForms /\ drops' \in 0 .. choices'
  BY <1>1, PdfBounds DEF Choose, DropFile, SaveForm
<1>3. /\ row'.file \in Documents \cup {None} /\ row'.item \in Items \cup {None}
  BY DEF PdfInv, PdfTypeOK, Choose, DropFile, SaveForm, Documents
<1>4. disk' \in [doc : Documents, old : BOOLEAN] \cup {NoFile}
  BY DEF PdfInv, PdfTypeOK, Choose, DropFile, SaveForm
<1>5. UNCHANGED <<upload, viewer>>
  BY DEF Choose, DropFile, SaveForm
<1> QED BY <1>2, <1>3, <1>4, <1>5 DEF PdfInv, PdfTypeOK

LEMMA ViewerKeeps ==
  ASSUME PdfInv, NEW v \in Viewers, Request(v) \/ Look(v) \/ Fetched(v) \/ FetchFails(v)
  PROVE  PdfInv'
<1>1. viewer \in [Viewers -> ViewerStates]
  BY DEF PdfInv, PdfTypeOK, ViewerStates
<1>2. /\ viewer' \in [Viewers -> ViewerStates]
      /\ \A w \in Viewers : viewer'[w].step # "idle" => viewer'[w].item # None
  <2>1. CASE Request(v)
    <3>1. row.item \in Items \cup {None} /\ row.item # None
      BY <2>1 DEF PdfInv, PdfTypeOK, Request
    <3> QED BY <1>1, <2>1, <3>1 DEF PdfInv, Request, ViewerStates
  <2>2. CASE Fetched(v) \/ FetchFails(v)
    BY <1>1, <2>2 DEF PdfInv, Fetched, FetchFails, ViewerStates
  <2>3. CASE Look(v)
    <3>1. PICK r \in ViewerStates : r = viewer[v]
      BY <1>1
    <3>2. [r EXCEPT !.step = "fetching"] \in ViewerStates
      BY DEF ViewerStates
    <3>3. r.item # None /\ [r EXCEPT !.step = "fetching"].item = r.item
      BY <2>3, <3>1 DEF Look, PdfInv, ViewerStates
    <3>4. /\ [step |-> "idle", item |-> None] \in ViewerStates
          /\ [step |-> "idle", item |-> None].step = "idle"
      BY DEF ViewerStates
    <3>5. /\ viewer' = [viewer EXCEPT ![v] = viewer'[v]]
          /\ viewer'[v] \in {[r EXCEPT !.step = "fetching"], [step |-> "idle", item |-> None]}
      BY <1>1, <2>3, <3>1 DEF Look
    <3>6. viewer'[v] \in ViewerStates
      BY <3>2, <3>4, <3>5
    <3>7. viewer' \in [Viewers -> ViewerStates]
      BY <1>1, <3>5, <3>6
    <3>8. CASE viewer'[v] = [r EXCEPT !.step = "fetching"]
      BY <1>1, <3>3, <3>5, <3>7, <3>8 DEF PdfInv
    <3>9. CASE viewer'[v] = [step |-> "idle", item |-> None]
      BY <1>1, <3>4, <3>5, <3>7, <3>9 DEF PdfInv
    <3> QED BY <3>5, <3>8, <3>9
  <2> QED BY <2>1, <2>2, <2>3
<1>3. disk' \in [doc : Documents, old : BOOLEAN] \cup {NoFile}
  <2>1. CASE Fetched(v)
    <3>1. viewer[v].item \in Items
      BY <1>1, <2>1 DEF PdfInv, Fetched, ViewerStates
    <3> QED BY <2>1, <3>1 DEF Fetched, Documents
  <2> QED BY <2>1 DEF PdfInv, PdfTypeOK, Request, Look, FetchFails
<1>4. UNCHANGED <<row, upload, drops, choices, forms>>
  BY DEF Request, Look, Fetched, FetchFails
<1> QED BY <1>2, <1>3, <1>4 DEF PdfInv, PdfTypeOK, ViewerStates

LEMMA PdfStep ==
  ASSUME PdfInv, PdfNext
  PROVE  PdfInv'
<1>1. CASE HourPasses
  BY <1>1 DEF HourPasses, PdfInv, PdfTypeOK
<1> QED BY <1>1, UploadKeeps, RecordedChoiceKeeps, ViewerKeeps DEF PdfNext

LEMMA PdfStutters ==
  ASSUME PdfInv, UNCHANGED pdfVars
  PROVE  PdfInv'
BY DEF pdfVars, PdfInv, PdfTypeOK

-----------------------------------------------------------------------------
(* The token of a source: for any number of renewals that overlap, of      *)
(* connections, of restarts and of writes that fail, and for providers     *)
(* that take a refresh token once or many times.                           *)

RenewalSteps == {"idle", "ask", "write", "record"}
RenewalOutcomes == {"", "ok", "error", "reconnect"}
Renewals == [step : RenewalSteps, records : BOOLEAN, token : Tokens \cup {NoToken}, outcome : RenewalOutcomes]

\* A token that still works, of a grant.
LiveOf(token, grant) == token # NoToken /\ token.grant = grant /\ token.live

\* Whoever is about to write a token holds one that works, unless it was withdrawn.
WritersHoldLive ==
  \A t \in Renewers : renewal[t].step = "write" =>
    renewal[t].token # NoToken /\ (renewal[t].token.live \/ renewal[t].token.grant \in lost)

\* With a provider that takes a refresh token once, it is the only one of its grant.
OneSuccessor ==
  once => \A t \in Renewers : renewal[t].step = "write" =>
    LET grant == renewal[t].token.grant IN
    /\ ~ LiveOf(secret, grant)
    /\ \A s \in Renewers \ {t} : ~ LiveOf(renewal[s].token, grant)

\* A token that the callback is about to store is of a connection of its own.
CallbackIsNew ==
  /\ secret # NoToken => secret.grant <= grants
  /\ \A t \in Renewers : renewal[t].token # NoToken => renewal[t].token.grant <= grants
  /\ callback # NoToken =>
       /\ callback.grant = grants
       /\ callback.live \/ callback.grant \in lost
       /\ secret # NoToken => secret.grant < grants
       /\ \A t \in Renewers : renewal[t].token # NoToken => renewal[t].token.grant < grants

\* Whoever asks for a renewal holds a token.
AskersHold == \A t \in Renewers : renewal[t].step = "ask" => renewal[t].token # NoToken

TokenInv == TokenTypeOK /\ WritersHoldLive /\ OneSuccessor /\ CallbackIsNew /\ AskersHold /\ TokenLives

LEMMA TokenBounds == MaxGrants \in Nat /\ MaxMishaps \in Nat /\ NoToken \notin Tokens
BY TokenConstants DEF Tokens

\* What Dead does to a copy.
LEMMA DeadCopy ==
  ASSUME NEW token \in Tokens \cup {NoToken}, NEW g
  PROVE  /\ Dead(token, g) \in Tokens \cup {NoToken}
         /\ Dead(token, g) = NoToken <=> token = NoToken
         /\ token # NoToken => Dead(token, g).grant = token.grant
         /\ token # NoToken /\ Dead(token, g).live => token.live /\ token.grant # g
         /\ token # NoToken /\ token.grant # g => Dead(token, g) = token
<1>1. CASE token = NoToken
  BY <1>1 DEF Dead
<1>2. CASE token # NoToken
  <2>1. token \in Tokens /\ NoToken \notin Tokens
    BY <1>2, TokenBounds
  <2>2. [token EXCEPT !.live = FALSE] \in Tokens
    BY <2>1 DEF Tokens
  <2>3. [token EXCEPT !.live = FALSE].grant = token.grant /\ [token EXCEPT !.live = FALSE].live = FALSE
    BY <2>1 DEF Tokens
  <2> QED BY <1>2, <2>1, <2>2, <2>3 DEF Dead
<1> QED BY <1>1, <1>2

LEMMA OutcomeTyped ==
  ASSUME TokenTypeOK, NEW t \in Renewers, NEW o \in RenewalOutcomes
  PROVE  /\ Outcome(t, o) \in Renewals
         /\ Outcome(t, o).step \in {"idle", "record"}
         /\ Outcome(t, o).token \in {renewal[t].token, NoToken}
<1>1. renewal[t] \in Renewals
  BY DEF TokenTypeOK, Renewals, RenewalSteps, RenewalOutcomes
<1>2. Idle \in Renewals /\ Idle.step = "idle" /\ Idle.token = NoToken
  BY DEF Idle, Renewals, RenewalSteps, RenewalOutcomes
<1> DEFINE r == [renewal[t] EXCEPT !.step = "record", !.outcome = o]
<1>3. r \in Renewals /\ r.step = "record" /\ r.token = renewal[t].token
  BY <1>1 DEF Renewals, RenewalSteps
<1>4. Outcome(t, o) = r \/ Outcome(t, o) = Idle
  BY DEF Outcome
<1> HIDE DEF r
<1> QED BY <1>2, <1>3, <1>4

LEMMA TokenInitInv == TokenInit => TokenInv
<1> SUFFICES ASSUME TokenInit PROVE TokenInv
  OBVIOUS
<1>1. Idle \in Renewals /\ Idle.step = "idle" /\ Idle.token = NoToken
  BY DEF Idle, Renewals, RenewalSteps, RenewalOutcomes
<1>2. TokenTypeOK
  <2>1. renewal \in [Renewers -> Renewals]
    BY <1>1 DEF TokenInit
  <2>2. grants = 0 /\ mishaps = 0 /\ lost = {}
    BY DEF TokenInit
  <2>3. 0 \in 0 .. MaxGrants /\ 0 \in 0 .. MaxMishaps
    BY TokenBounds
  <2> QED BY <2>1, <2>2, <2>3 DEF TokenInit, TokenTypeOK, Renewals, RenewalSteps, RenewalOutcomes
<1> QED BY <1>1, <1>2 DEF TokenInit, TokenInv, WritersHoldLive, OneSuccessor, CallbackIsNew,
                          AskersHold, TokenLives

\* A goroutine ends its renewal, or starts over, without a token to write: nobody
\* else notices.  (Also a reading of the stored token, and a restart.)
LEMMA QuietStep ==
  ASSUME TokenInv, NEW t \in Renewers, NEW r \in Renewals,
         r.step # "write", r.step = "ask" => r.token # NoToken,
         r.token \in {renewal[t].token, NoToken, secret},
         renewal[t].step # "write",
         renewal' = [renewal EXCEPT ![t] = r],
         health' \in RenewalOutcomes,
         UNCHANGED <<once, secret, callback, grants, mishaps, lost>>
  PROVE  TokenInv'
<1>1. renewal \in [Renewers -> Renewals]
  BY DEF TokenInv, TokenTypeOK, Renewals, RenewalSteps, RenewalOutcomes
<1>2. /\ renewal' \in [Renewers -> Renewals] /\ renewal'[t] = r
      /\ \A s \in Renewers : s # t => renewal'[s] = renewal[s]
  BY <1>1
<1>3. TokenTypeOK'
  BY <1>2 DEF TokenInv, TokenTypeOK, Renewals, RenewalSteps, RenewalOutcomes
<1>4. WritersHoldLive'
  BY <1>2 DEF TokenInv, WritersHoldLive
<1>5. OneSuccessor'
  BY <1>2 DEF TokenInv, OneSuccessor, LiveOf
<1>6. CallbackIsNew'
  BY <1>2 DEF TokenInv, CallbackIsNew
<1>7. AskersHold'
  BY <1>2 DEF TokenInv, AskersHold
<1>8. TokenLives'
  BY <1>2 DEF TokenInv, TokenLives, Works
<1> QED BY <1>3, <1>4, <1>5, <1>6, <1>7, <1>8 DEF TokenInv

LEMMA ReadKeeps ==
  ASSUME TokenInv, NEW t \in Renewers, ReadToken(t)
  PROVE  TokenInv'
<1>1. PICK b \in BOOLEAN :
        renewal' = [renewal EXCEPT ![t] = [step |-> "ask", records |-> b,
                                           token |-> secret, outcome |-> ""]]
  BY DEF ReadToken
<1> DEFINE r == [step |-> "ask", records |-> b, token |-> secret, outcome |-> ""]
<1>2. r \in Renewals /\ r.step = "ask" /\ r.token = secret
  BY DEF TokenInv, TokenTypeOK, Renewals, RenewalSteps, RenewalOutcomes
<1>3. secret # NoToken /\ renewal[t].step # "write" /\ renewal' = [renewal EXCEPT ![t] = r]
  BY <1>1 DEF ReadToken
<1>4. health' \in RenewalOutcomes /\ UNCHANGED <<once, secret, callback, grants, mishaps, lost>>
  BY DEF ReadToken, TokenInv, TokenTypeOK, RenewalOutcomes
<1> HIDE DEF r
<1> QED BY <1>2, <1>3, <1>4, QuietStep

LEMMA RefusalKeeps ==
  ASSUME TokenInv, NEW t \in Renewers, Unexpired(t) \/ Refused(t) \/ Unreachable(t)
  PROVE  TokenInv'
<1>1. PICK o \in RenewalOutcomes : renewal' = [renewal EXCEPT ![t] = Outcome(t, o)]
  BY DEF Unexpired, Refused, Unreachable, RenewalOutcomes
<1>2. /\ Outcome(t, o) \in Renewals /\ Outcome(t, o).step \in {"idle", "record"}
      /\ Outcome(t, o).token \in {renewal[t].token, NoToken}
  BY OutcomeTyped DEF TokenInv
<1>3. renewal[t].step # "write" /\ health' \in RenewalOutcomes
      /\ UNCHANGED <<once, secret, callback, grants, mishaps, lost>>
  BY DEF Unexpired, Refused, Unreachable, TokenInv, TokenTypeOK, RenewalOutcomes
<1> QED BY <1>1, <1>2, <1>3, QuietStep

LEMMA RecordKeeps ==
  ASSUME TokenInv, NEW t \in Renewers, Record(t)
  PROVE  TokenInv'
<1>1. Idle \in Renewals /\ Idle.step = "idle" /\ Idle.token = NoToken
  BY DEF Idle, Renewals, RenewalSteps, RenewalOutcomes
<1>2. renewal[t].step # "write" /\ renewal' = [renewal EXCEPT ![t] = Idle] /\ health' \in RenewalOutcomes
      /\ UNCHANGED <<once, secret, callback, grants, mishaps, lost>>
  BY DEF Record, TokenInv, TokenTypeOK, RenewalOutcomes
<1> QED BY <1>1, <1>2, QuietStep

\* A renewal makes the copies of the old token useless, and the new one is the
\* successor of the stored one.
LEMMA RenewedKeeps ==
  ASSUME TokenInv, NEW t \in Renewers, Renewed(t)
  PROVE  TokenInv'
<1> DEFINE old == renewal[t].token
           g == old.grant
           r == [renewal[t] EXCEPT !.step = "write"]
<1>1. renewal \in [Renewers -> Renewals] /\ renewal[t].step = "ask" /\ old.live
      /\ old \in Tokens /\ g \in 1 .. MaxGrants
  BY DEF TokenInv, TokenTypeOK, Renewals, RenewalSteps, RenewalOutcomes, Renewed, AskersHold, Tokens
<1>2. r \in Renewals /\ r.step = "write" /\ r.token = old
  BY <1>1 DEF Renewals, RenewalSteps
<1>3. /\ renewal' \in [Renewers -> Renewals] /\ renewal'[t] = r
      /\ \A s \in Renewers \ {t} :
           /\ renewal'[s].step = renewal[s].step
           /\ renewal'[s].token = IF once THEN Dead(renewal[s].token, g) ELSE renewal[s].token
  <2>1. \A s \in Renewers : Dead(renewal[s].token, g) \in Tokens \cup {NoToken}
    BY <1>1, DeadCopy DEF Renewals
  <2> DEFINE d(s) == [renewal[s] EXCEPT !.token = Dead(renewal[s].token, g)]
  <2>2. \A s \in Renewers : d(s) \in Renewals /\ d(s).step = renewal[s].step
                            /\ d(s).token = Dead(renewal[s].token, g)
    BY <1>1, <2>1 DEF Renewals
  <2>3. renewal' = [s \in Renewers |-> IF s = t THEN r ELSE IF once THEN d(s) ELSE renewal[s]]
    BY DEF Renewed
  <2> HIDE DEF d, r, old
  <2> QED BY <1>1, <1>2, <2>2, <2>3
<1>4. secret' = (IF once THEN Dead(secret, g) ELSE secret)
      /\ UNCHANGED <<once, health, callback, grants, mishaps, lost>>
  BY DEF Renewed
<1>5. secret \in Tokens \cup {NoToken} /\ \A s \in Renewers : renewal[s].token \in Tokens \cup {NoToken}
  BY <1>1 DEF Renewals, TokenInv, TokenTypeOK
<1> HIDE DEF r, old, g
\* Nobody else was about to write a token of this grant.
<1>6. ASSUME once, NEW s \in Renewers \ {t}, renewal[s].step = "write"
      PROVE  renewal[s].token # NoToken /\ renewal[s].token.grant # g
             /\ renewal'[s].token = renewal[s].token
  <2>1. renewal[s].token # NoToken /\ renewal[s].token.grant # g
    BY <1>1, <1>6, TokenBounds DEF TokenInv, WritersHoldLive, OneSuccessor, LiveOf, old, g
  <2> QED BY <1>3, <1>5, <1>6, <2>1, DeadCopy
<1>7. TokenTypeOK'
  BY <1>3, <1>4, <1>5, DeadCopy DEF TokenInv, TokenTypeOK, Renewals, RenewalSteps, RenewalOutcomes
<1>8. WritersHoldLive'
  BY <1>1, <1>2, <1>3, <1>4, <1>6, TokenBounds DEF TokenInv, WritersHoldLive
<1>9. OneSuccessor'
  <2> SUFFICES ASSUME once, NEW s \in Renewers, renewal'[s].step = "write"
               PROVE  /\ ~ LiveOf(secret', renewal'[s].token.grant)
                      /\ \A u \in Renewers \ {s} : ~ LiveOf(renewal'[u].token, renewal'[s].token.grant)
    BY <1>4 DEF OneSuccessor, LiveOf
  <2>1. CASE s = t
    <3>1. renewal'[s].token.grant = g
      BY <1>2, <1>3, <2>1 DEF g
    <3>2. ~ LiveOf(secret', g)
      BY <1>4, <1>5, DeadCopy DEF LiveOf
    <3>3. ASSUME NEW u \in Renewers \ {s} PROVE ~ LiveOf(renewal'[u].token, g)
      <4>1. renewal'[u].token = Dead(renewal[u].token, g) /\ renewal[u].token \in Tokens \cup {NoToken}
        BY <1>3, <1>5, <2>1, <3>3
      <4> QED BY <4>1, DeadCopy DEF LiveOf
    <3> QED BY <3>1, <3>2, <3>3
  <2>2. CASE s # t
    <3>1. renewal[s].step = "write" /\ renewal'[s].token = renewal[s].token
          /\ renewal[s].token.grant # g
      BY <1>3, <1>6, <2>2
    <3>2. ~ LiveOf(secret', renewal[s].token.grant)
      BY <1>4, <1>5, <3>1, DeadCopy DEF TokenInv, OneSuccessor, LiveOf
    <3>3. ASSUME NEW u \in Renewers \ {s}
          PROVE  ~ LiveOf(renewal'[u].token, renewal[s].token.grant)
      BY <1>2, <1>3, <1>5, <3>1, <3>3, DeadCopy DEF TokenInv, OneSuccessor, LiveOf, g
    <3> QED BY <3>1, <3>2, <3>3
  <2> QED BY <2>1, <2>2
<1>10. CallbackIsNew'
  BY <1>2, <1>3, <1>4, <1>5, DeadCopy DEF TokenInv, CallbackIsNew, old
<1>11. AskersHold'
  BY <1>2, <1>3, <1>5, DeadCopy DEF TokenInv, AskersHold
<1>12. TokenLives'
  <2> SUFFICES ASSUME secret' # NoToken, secret'.grant \notin lost, ~ secret'.live
               PROVE  \E u \in Renewers : /\ renewal'[u].step = "write" /\ renewal'[u].token.live
                                          /\ renewal'[u].token.grant = secret'.grant
    BY <1>4 DEF TokenLives, Works
  <2>1. secret # NoToken /\ secret'.grant = secret.grant
    BY <1>4, <1>5, DeadCopy
  <2>2. CASE secret.grant = g
    BY <1>1, <1>2, <1>3, <2>1, <2>2 DEF g
  <2>3. CASE secret.grant # g
    <3>1. secret' = secret
      BY <1>4, <1>5, <2>1, <2>3, DeadCopy
    <3>2. PICK u \in Renewers : /\ renewal[u].step = "write" /\ renewal[u].token.live
                                /\ renewal[u].token.grant = secret.grant
      BY <2>1, <3>1 DEF TokenInv, TokenLives, Works
    <3>3. u # t
      BY <1>1, <3>2
    <3>4. renewal'[u].step = "write" /\ renewal'[u].token = renewal[u].token
      BY <1>3, <1>6, <3>2, <3>3
    <3> QED BY <3>1, <3>2, <3>4
  <2> QED BY <2>2, <2>3
<1> QED BY <1>7, <1>8, <1>9, <1>10, <1>11, <1>12 DEF TokenInv

\* The written token is of the grant the writer held: nobody else has a live one.
LEMMA WriteBackKeeps ==
  ASSUME TokenInv, NEW t \in Renewers, WriteBack(t)
  PROVE  TokenInv'
<1> DEFINE r == Outcome(t, "ok")
<1>1. renewal \in [Renewers -> Renewals] /\ renewal[t].step = "write"
  BY DEF TokenInv, TokenTypeOK, Renewals, RenewalSteps, RenewalOutcomes, WriteBack
<1>2. r \in Renewals /\ r.step \in {"idle", "record"} /\ r.token \in {renewal[t].token, NoToken}
  BY OutcomeTyped DEF TokenInv, RenewalOutcomes
<1>3. secret' = renewal[t].token /\ UNCHANGED <<once, health, callback, grants, mishaps, lost>>
      /\ renewal' = [renewal EXCEPT ![t] = r]
  BY DEF WriteBack
<1> HIDE DEF r
<1>4. /\ renewal' \in [Renewers -> Renewals] /\ renewal'[t] = r
      /\ \A s \in Renewers : s # t => renewal'[s] = renewal[s]
  BY <1>1, <1>2, <1>3
<1>5. secret' \in Tokens \cup {NoToken}
  BY <1>1, <1>3 DEF Renewals
<1>6. TokenTypeOK'
  BY <1>3, <1>4, <1>5 DEF TokenInv, TokenTypeOK, Renewals, RenewalSteps, RenewalOutcomes
<1>7. WritersHoldLive'
  BY <1>2, <1>3, <1>4 DEF TokenInv, WritersHoldLive
<1>8. OneSuccessor'
  BY <1>2, <1>3, <1>4 DEF TokenInv, OneSuccessor, LiveOf
<1>9. CallbackIsNew'
  BY <1>2, <1>3, <1>4 DEF TokenInv, CallbackIsNew
<1>10. AskersHold'
  BY <1>2, <1>4 DEF TokenInv, AskersHold
<1>11. TokenLives'
  BY <1>1, <1>3 DEF TokenInv, WritersHoldLive, TokenLives, Works
<1> QED BY <1>6, <1>7, <1>8, <1>9, <1>10, <1>11 DEF TokenInv

LEMMA MishapCounts ==
  ASSUME TokenInv, Mishap
  PROVE  mishaps' \in 0 .. MaxMishaps
<1>1. mishaps \in 0 .. MaxMishaps
  BY DEF TokenInv, TokenTypeOK
<1>2. mishaps < MaxMishaps /\ mishaps' = mishaps + 1
  BY DEF Mishap
<1>3. MaxMishaps \in Nat
  BY TokenBounds
<1> QED BY <1>1, <1>2, <1>3

\* The connections made so far are numbers of grants.
LEMMA GrantNumbers ==
  ASSUME TokenInv
  PROVE  grants \in 0 .. MaxGrants /\ MaxGrants \in Nat /\ grants \in Int
<1>1. grants \in 0 .. MaxGrants
  BY DEF TokenInv, TokenTypeOK
<1>2. MaxGrants \in Nat
  BY TokenBounds
<1> QED BY <1>1, <1>2

LEMMA WriteFailsKeeps ==
  ASSUME TokenInv, NEW t \in Renewers, WriteFails(t)
  PROVE  TokenInv'
<1> DEFINE r == Outcome(t, "ok")
           g == renewal[t].token.grant
<1>1. renewal \in [Renewers -> Renewals] /\ renewal[t].step = "write"
  BY DEF TokenInv, TokenTypeOK, Renewals, RenewalSteps, RenewalOutcomes, WriteFails
<1>2. r \in Renewals /\ r.step \in {"idle", "record"} /\ r.token \in {renewal[t].token, NoToken}
  BY OutcomeTyped DEF TokenInv, RenewalOutcomes
<1>3. lost' = lost \cup {g} /\ UNCHANGED <<once, secret, health, callback, grants>>
      /\ renewal' = [renewal EXCEPT ![t] = r]
  BY DEF WriteFails
<1>4. g \in 1 .. MaxGrants
  BY <1>1 DEF TokenInv, WritersHoldLive, Renewals, Tokens
<1> HIDE DEF r
<1>5. /\ renewal' \in [Renewers -> Renewals] /\ renewal'[t] = r
      /\ \A s \in Renewers : s # t => renewal'[s] = renewal[s]
  BY <1>1, <1>2, <1>3
<1>6. TokenTypeOK'
  <2>1. mishaps' \in 0 .. MaxMishaps
    BY MishapCounts DEF WriteFails
  <2>2. lost' \subseteq 1 .. MaxGrants
    BY <1>3, <1>4 DEF TokenInv, TokenTypeOK
  <2> QED BY <1>3, <1>5, <2>1, <2>2 DEF TokenInv, TokenTypeOK, Renewals, RenewalSteps, RenewalOutcomes
<1>7. WritersHoldLive'
  BY <1>2, <1>3, <1>5 DEF TokenInv, WritersHoldLive
<1>8. OneSuccessor'
  BY <1>2, <1>3, <1>5 DEF TokenInv, OneSuccessor, LiveOf
<1>9. CallbackIsNew'
  BY <1>2, <1>3, <1>5 DEF TokenInv, CallbackIsNew
<1>10. AskersHold'
  BY <1>2, <1>5 DEF TokenInv, AskersHold
<1>11. TokenLives'
  <2> SUFFICES ASSUME secret # NoToken, secret.grant \notin lost, secret.grant # g, ~ secret.live
               PROVE  \E u \in Renewers : /\ renewal'[u].step = "write" /\ renewal'[u].token.live
                                          /\ renewal'[u].token.grant = secret.grant
    BY <1>3 DEF TokenLives, Works
  <2>1. PICK u \in Renewers : /\ renewal[u].step = "write" /\ renewal[u].token.live
                              /\ renewal[u].token.grant = secret.grant
    BY DEF TokenInv, TokenLives, Works
  <2> QED BY <1>5, <2>1
<1> QED BY <1>6, <1>7, <1>8, <1>9, <1>10, <1>11 DEF TokenInv

LEMMA RestartKeeps ==
  ASSUME TokenInv, Restart
  PROVE  TokenInv'
<1>1. Idle \in Renewals /\ Idle.step = "idle" /\ Idle.token = NoToken
  BY DEF Idle, Renewals, RenewalSteps, RenewalOutcomes
<1>2. \A t \in Renewers : renewal'[t] = Idle
  BY DEF Restart
<1>3. callback' = NoToken /\ UNCHANGED <<once, secret, health, grants>>
  BY DEF Restart
<1>4. \A t \in Renewers : renewal[t].step = "write" =>
        renewal[t].token.grant \in 1 .. MaxGrants /\ renewal[t].token.grant \in lost'
  BY DEF TokenInv, TokenTypeOK, WritersHoldLive, Tokens, Restart
<1>5. lost \subseteq lost' /\ lost' \subseteq 1 .. MaxGrants
  BY <1>4 DEF Restart, TokenInv, TokenTypeOK
<1>6. TokenTypeOK'
  <2>1. mishaps' \in 0 .. MaxMishaps
    BY MishapCounts DEF Restart
  <2>2. renewal' \in [Renewers -> Renewals]
    BY <1>1 DEF Restart
  <2> QED BY <1>3, <1>5, <2>1, <2>2 DEF TokenInv, TokenTypeOK, Renewals, RenewalSteps, RenewalOutcomes
<1>7. WritersHoldLive' /\ OneSuccessor' /\ AskersHold'
  BY <1>1, <1>2 DEF WritersHoldLive, OneSuccessor, AskersHold
<1>8. CallbackIsNew'
  BY <1>1, <1>2, <1>3 DEF TokenInv, CallbackIsNew
<1>9. TokenLives'
  BY <1>3, <1>4, <1>5 DEF TokenInv, TokenLives, Works
<1> QED BY <1>6, <1>7, <1>8, <1>9 DEF TokenInv

LEMMA WithdrawKeeps ==
  ASSUME TokenInv, NEW g \in 1 .. grants, Withdraw(g)
  PROVE  TokenInv'
<1>1. renewal \in [Renewers -> Renewals]
  BY DEF TokenInv, TokenTypeOK, Renewals, RenewalSteps, RenewalOutcomes
<1> DEFINE d(s) == [renewal[s] EXCEPT !.token = Dead(renewal[s].token, g)]
<1>2. \A s \in Renewers : /\ d(s) \in Renewals /\ d(s).step = renewal[s].step
                          /\ d(s).token = Dead(renewal[s].token, g)
  <2>1. \A s \in Renewers : Dead(renewal[s].token, g) \in Tokens \cup {NoToken}
    BY <1>1, DeadCopy DEF Renewals
  <2> QED BY <1>1, <2>1 DEF Renewals
<1>3. renewal' = [s \in Renewers |-> d(s)]
  BY DEF Withdraw
<1>4. /\ secret' = Dead(secret, g) /\ callback' = Dead(callback, g)
      /\ lost' = lost \cup {g} /\ UNCHANGED <<once, health, grants>>
  BY DEF Withdraw
<1> HIDE DEF d
<1>5. /\ renewal' \in [Renewers -> Renewals]
      /\ \A s \in Renewers : /\ renewal'[s].step = renewal[s].step
                             /\ renewal'[s].token = Dead(renewal[s].token, g)
  BY <1>2, <1>3
<1>6. /\ secret \in Tokens \cup {NoToken} /\ callback \in Tokens \cup {NoToken}
      /\ \A s \in Renewers : renewal[s].token \in Tokens \cup {NoToken}
  BY <1>1 DEF Renewals, TokenInv, TokenTypeOK
<1>7. TokenTypeOK'
  <2>1. mishaps' \in 0 .. MaxMishaps
    BY MishapCounts DEF Withdraw
  <2>2. g \in 1 .. MaxGrants
    BY GrantNumbers
  <2>3. secret' \in Tokens \cup {NoToken} /\ callback' \in Tokens \cup {NoToken}
    BY <1>4, <1>6, DeadCopy
  <2> QED BY <1>4, <1>5, <2>1, <2>2, <2>3 DEF TokenInv, TokenTypeOK, Renewals, RenewalSteps, RenewalOutcomes
<1>8. WritersHoldLive'
  <2> SUFFICES ASSUME NEW s \in Renewers, renewal[s].step = "write"
               PROVE  /\ renewal'[s].token # NoToken
                      /\ renewal'[s].token.live \/ renewal'[s].token.grant \in lost'
    BY <1>5 DEF WritersHoldLive
  <2>1. renewal[s].token # NoToken /\ (renewal[s].token.live \/ renewal[s].token.grant \in lost)
    BY DEF TokenInv, WritersHoldLive
  <2> QED BY <1>4, <1>5, <1>6, <2>1, DeadCopy
<1>9. OneSuccessor'
  <2> SUFFICES ASSUME once, NEW s \in Renewers, renewal[s].step = "write"
               PROVE  /\ ~ LiveOf(secret', renewal'[s].token.grant)
                      /\ \A u \in Renewers \ {s} : ~ LiveOf(renewal'[u].token, renewal'[s].token.grant)
    BY <1>4, <1>5 DEF OneSuccessor, LiveOf
  <2>1. renewal'[s].token.grant = renewal[s].token.grant
    BY <1>5, <1>6, DeadCopy DEF TokenInv, WritersHoldLive
  <2>2. /\ ~ LiveOf(secret, renewal[s].token.grant)
        /\ \A u \in Renewers \ {s} : ~ LiveOf(renewal[u].token, renewal[s].token.grant)
    BY DEF TokenInv, OneSuccessor
  <2>3. ~ LiveOf(secret', renewal[s].token.grant)
    BY <1>4, <1>6, <2>2, DeadCopy DEF LiveOf
  <2>4. \A u \in Renewers \ {s} : ~ LiveOf(renewal'[u].token, renewal[s].token.grant)
    BY <1>5, <1>6, <2>2, DeadCopy DEF LiveOf
  <2> QED BY <2>1, <2>3, <2>4
<1>10. CallbackIsNew'
  <2>1. secret' # NoToken <=> secret # NoToken
    BY <1>4, <1>6, DeadCopy
  <2>3. secret # NoToken => secret'.grant = secret.grant
    BY <1>4, <1>6, DeadCopy
  <2>4. callback' # NoToken <=> callback # NoToken
    BY <1>4, <1>6, DeadCopy
  <2>5. callback # NoToken => /\ callback'.grant = callback.grant
                              /\ callback.grant = g \/ callback' = callback
    BY <1>4, <1>6, DeadCopy
  <2>2. \A s \in Renewers : /\ renewal'[s].token # NoToken <=> renewal[s].token # NoToken
                            /\ renewal[s].token # NoToken =>
                                 renewal'[s].token.grant = renewal[s].token.grant
    <3> TAKE s \in Renewers
    <3>1. renewal'[s].token = Dead(renewal[s].token, g) /\ renewal[s].token \in Tokens \cup {NoToken}
      BY <1>5, <1>6
    <3>2. Dead(renewal[s].token, g) = NoToken <=> renewal[s].token = NoToken
      BY <3>1, DeadCopy
    <3>3. renewal[s].token # NoToken => Dead(renewal[s].token, g).grant = renewal[s].token.grant
      BY <3>1, DeadCopy
    <3> QED BY <3>1, <3>2, <3>3
  <2> QED BY <1>4, <2>1, <2>2, <2>3, <2>4, <2>5 DEF TokenInv, CallbackIsNew
<1>11. AskersHold'
  BY <1>5, <1>6, DeadCopy DEF TokenInv, AskersHold
<1>12. TokenLives'
  <2> SUFFICES ASSUME secret' # NoToken, secret'.grant \notin lost', ~ secret'.live
               PROVE  \E u \in Renewers : /\ renewal'[u].step = "write" /\ renewal'[u].token.live
                                          /\ renewal'[u].token.grant = secret'.grant
    BY DEF TokenLives, Works
  <2>1. secret # NoToken /\ secret.grant # g /\ secret' = secret /\ secret.grant \notin lost
    BY <1>4, <1>6, DeadCopy
  <2>2. PICK u \in Renewers : /\ renewal[u].step = "write" /\ renewal[u].token.live
                              /\ renewal[u].token.grant = secret.grant
    BY <2>1 DEF TokenInv, TokenLives, Works
  <2>3. renewal'[u].token = renewal[u].token
    BY <1>5, <1>6, <2>1, <2>2, DeadCopy DEF TokenInv, WritersHoldLive
  <2> QED BY <1>5, <2>1, <2>2, <2>3
<1> QED BY <1>7, <1>8, <1>9, <1>10, <1>11, <1>12 DEF TokenInv

LEMMA GrantedKeeps ==
  ASSUME TokenInv, Granted
  PROVE  TokenInv'
<1>1. /\ callback = NoToken /\ grants' = grants + 1
      /\ callback' = [grant |-> grants', live |-> TRUE]
      /\ UNCHANGED <<once, secret, health, renewal, mishaps, lost>>
  BY DEF Granted
<1>2. grants \in 0 .. MaxGrants /\ grants' \in 1 .. MaxGrants /\ MaxGrants \in Nat
  <2>1. grants < MaxGrants
    BY DEF Granted
  <2> QED BY <1>1, <2>1, GrantNumbers
<1>3. callback' \in Tokens
  BY <1>1, <1>2 DEF Tokens
<1>4. TokenTypeOK'
  <2>1. grants' \in 0 .. MaxGrants
    BY <1>2
  <2> QED BY <1>1, <1>3, <2>1 DEF TokenInv, TokenTypeOK
<1>5. CallbackIsNew'
  <2>1. ASSUME secret # NoToken PROVE secret.grant < grants' /\ secret.grant <= grants'
    <3>1. secret \in Tokens
      BY <2>1 DEF TokenInv, TokenTypeOK
    <3>2. secret.grant <= grants /\ secret.grant \in 1 .. MaxGrants
      BY <2>1, <3>1 DEF TokenInv, CallbackIsNew, Tokens
    <3> QED BY <1>1, <1>2, <3>2
  <2>2. ASSUME NEW t \in Renewers, renewal[t].token # NoToken
        PROVE  renewal[t].token.grant < grants' /\ renewal[t].token.grant <= grants'
    <3>1. renewal[t].token \in Tokens
      BY <2>2 DEF TokenInv, TokenTypeOK
    <3>2. renewal[t].token.grant <= grants /\ renewal[t].token.grant \in 1 .. MaxGrants
      BY <2>2, <3>1 DEF TokenInv, CallbackIsNew, Tokens
    <3> QED BY <1>1, <1>2, <3>2
  <2>3. callback'.grant = grants' /\ callback'.live
    BY <1>1
  <2> QED BY <1>1, <2>1, <2>2, <2>3 DEF CallbackIsNew
<1>6. WritersHoldLive' /\ OneSuccessor' /\ AskersHold' /\ TokenLives'
  BY <1>1 DEF TokenInv, WritersHoldLive, OneSuccessor, LiveOf, AskersHold, TokenLives, Works
<1> QED BY <1>4, <1>5, <1>6 DEF TokenInv

LEMMA StoreGrantKeeps ==
  ASSUME TokenInv, StoreGrant
  PROVE  TokenInv'
<1>1. /\ callback # NoToken /\ secret' = callback /\ callback' = NoToken
      /\ UNCHANGED <<once, health, renewal, grants, mishaps, lost>>
  BY DEF StoreGrant
<1>2. callback \in Tokens /\ callback.grant = grants /\ (callback.live \/ callback.grant \in lost)
  BY <1>1 DEF TokenInv, TokenTypeOK, CallbackIsNew
<1>3. \A t \in Renewers : renewal[t].token # NoToken => renewal[t].token.grant # callback.grant
  <2> SUFFICES ASSUME NEW t \in Renewers, renewal[t].token # NoToken
               PROVE  renewal[t].token.grant # callback.grant
    OBVIOUS
  <2>1. renewal[t].token \in Tokens
    BY DEF TokenInv, TokenTypeOK
  <2> QED BY <1>1, <1>2, <2>1 DEF TokenInv, CallbackIsNew, Tokens
<1>4. TokenTypeOK'
  BY <1>1, <1>2 DEF TokenInv, TokenTypeOK
<1>5. WritersHoldLive' /\ AskersHold'
  BY <1>1 DEF TokenInv, WritersHoldLive, AskersHold
<1>6. OneSuccessor'
  BY <1>1, <1>3 DEF TokenInv, OneSuccessor, WritersHoldLive, LiveOf
<1>7. CallbackIsNew'
  <2>1. grants <= grants
    BY GrantNumbers
  <2> QED BY <1>1, <1>2, <2>1 DEF TokenInv, CallbackIsNew
<1>8. TokenLives'
  BY <1>1, <1>2 DEF TokenLives, Works
<1> QED BY <1>4, <1>5, <1>6, <1>7, <1>8 DEF TokenInv

LEMMA TokenStep == TokenInv /\ [TokenNext]_tokenVars => TokenInv'
<1> SUFFICES ASSUME TokenInv, [TokenNext]_tokenVars PROVE TokenInv'
  OBVIOUS
<1>1. CASE Granted
  BY <1>1, GrantedKeeps
<1>2. CASE StoreGrant
  BY <1>2, StoreGrantKeeps
<1>3. ASSUME NEW t \in Renewers,
             ReadToken(t) \/ Renew(t) \/ WriteBack(t) \/ Record(t) \/ WriteFails(t)
      PROVE  TokenInv'
  <2>1. CASE Renew(t)
    BY <2>1, RenewedKeeps, RefusalKeeps DEF Renew
  <2> QED BY <1>3, <2>1, ReadKeeps, WriteBackKeeps, RecordKeeps, WriteFailsKeeps
<1>4. CASE Restart
  BY <1>4, RestartKeeps
<1>5. ASSUME NEW grant \in 1 .. grants, Withdraw(grant)
      PROVE  TokenInv'
  BY <1>5, WithdrawKeeps
<1>6. CASE UNCHANGED tokenVars
  BY <1>6 DEF tokenVars, TokenInv, TokenTypeOK, WritersHoldLive, OneSuccessor, LiveOf,
              CallbackIsNew, AskersHold, TokenLives, Works
<1> QED BY <1>1, <1>2, <1>3, <1>4, <1>5, <1>6 DEF TokenNext

-----------------------------------------------------------------------------
(* The four together: where one is worked at, the others stand still.      *)

AdministrationInv == PlaylistInv /\ LayoutInv /\ PdfInv /\ TokenInv

LEMMA AdministrationInitInv == Init => AdministrationInv
BY PlaylistInitInv, LayoutInitInv, PdfInitInv, TokenInitInv DEF Init, AdministrationInv

LEMMA TokenStutters ==
  ASSUME TokenInv, UNCHANGED tokenVars
  PROVE  TokenInv'
BY TokenStep

LEMMA AdministrationStep == AdministrationInv /\ [Next]_vars => AdministrationInv'
<1> SUFFICES ASSUME AdministrationInv, [Next]_vars PROVE AdministrationInv'
  OBVIOUS
<1>1. PlaylistInv /\ LayoutInv /\ PdfInv /\ TokenInv
  BY DEF AdministrationInv
<1>2. CASE AtPlaylists
  <2>1. PlaylistNext /\ UNCHANGED layoutVars /\ UNCHANGED pdfVars /\ UNCHANGED tokenVars
    BY <1>2 DEF AtPlaylists
  <2> QED BY <1>1, <2>1, PlaylistStep, LayoutStutters, PdfStutters, TokenStutters DEF AdministrationInv
<1>3. CASE AtLayout
  <2>1. LayoutNext /\ UNCHANGED playlistVars /\ UNCHANGED pdfVars /\ UNCHANGED tokenVars
    BY <1>3 DEF AtLayout
  <2> QED BY <1>1, <2>1, LayoutStep, PlaylistStutters, PdfStutters, TokenStutters DEF AdministrationInv
<1>4. CASE AtPdf
  <2>1. PdfNext /\ UNCHANGED playlistVars /\ UNCHANGED layoutVars /\ UNCHANGED tokenVars
    BY <1>4 DEF AtPdf
  <2> QED BY <1>1, <2>1, PdfStep, PlaylistStutters, LayoutStutters, TokenStutters DEF AdministrationInv
<1>5. CASE AtSource
  <2>1. TokenNext /\ UNCHANGED playlistVars /\ UNCHANGED layoutVars /\ UNCHANGED pdfVars
    BY <1>5 DEF AtSource
  <2> QED BY <1>1, <2>1, TokenStep, PlaylistStutters, LayoutStutters, PdfStutters DEF AdministrationInv
<1>6. CASE UNCHANGED vars
  <2>1. /\ UNCHANGED playlistVars /\ UNCHANGED layoutVars
        /\ UNCHANGED pdfVars /\ UNCHANGED tokenVars
    BY <1>6 DEF vars
  <2> QED BY <1>1, <2>1, PlaylistStutters, LayoutStutters, PdfStutters, TokenStutters DEF AdministrationInv
<1> QED BY <1>2, <1>3, <1>4, <1>5, <1>6 DEF Next

LEMMA AdministrationInvariant == Spec => []AdministrationInv
<1>1. Init => AdministrationInv
  BY AdministrationInitInv
<1>2. AdministrationInv /\ [Next]_vars => AdministrationInv'
  BY AdministrationStep
<1> QED BY <1>1, <1>2, PTL DEF Spec

\* Every variable of playlists, layouts, documents and tokens keeps its type.  In
\* particular no layout is stored, drawn or about to be saved that layout.Parse would
\* refuse: every split keeps two children, whatever two pages that edit one view, with
\* paths of trees that are long gone, ask for.
THEOREM AdministrationIsTyped == Spec => []TypeOK
<1>1. AdministrationInv => TypeOK
  BY PlaylistInvImplies, LayoutInvImplies DEF AdministrationInv, PdfInv, TokenInv, TypeOK
<1> QED BY <1>1, AdministrationInvariant, PTL

\* admin_playlists.go: a request that was the only one from its first statement to its
\* answer does to the list what its button says, on the list as the person saw it;
\* positions are equal, and playlists are default together, only after requests have
\* overlapped or been cut short.
THEOREM AloneDoesAsAsked == Spec => []AloneAsAsked
<1>1. AdministrationInv => AloneAsAsked
  BY PlaylistInvImplies DEF AdministrationInv
<1> QED BY <1>1, AdministrationInvariant, PTL

\* mutateLayout, handleLayoutWeights, layouteditor.js: a page that edits a view alone
\* shows what is stored, and its buttons do to the row of panes what they say, in a
\* layout of any size and depth.
THEOREM TheLayoutIsAsDrawn == Spec => []LayoutAsDrawn
<1>1. AdministrationInv => LayoutAsDrawn
  BY LayoutInvImplies DEF AdministrationInv
<1> QED BY <1>1, AdministrationInvariant, PTL

\* broker.go (refreshOAuth, freshAccessToken), server.go (handleOAuthCallback): the
\* token in the row is one that works, or a goroutine holds its successor and is
\* about to write it, unless the grant was withdrawn or that write was lost;
\* however many renewals overlap with each other and with a new connection.
THEOREM TheTokenLives == Spec => []TokenLives
<1>1. AdministrationInv => TokenLives
  BY DEF AdministrationInv, TokenInv
<1> QED BY <1>1, AdministrationInvariant, PTL
=============================================================================
