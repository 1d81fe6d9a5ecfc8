---------------------------- MODULE UriValuesProofs ----------------------------
(***************************************************************************)
(* The values parseUri builds, for every query: an invariant of the loop   *)
(* over the pairs relates the positions of the query that were read to the *)
(* values inserted so far.                                                 *)
(***************************************************************************)
EXTENDS UriParserProofs

(* What follows the first piece is empty or stands behind the delimiter.   *)
LEMMA AfterFacts ==
  ASSUME NEW s, IsText(s), NEW c
  PROVE  /\ Len(Piece(s, c)) = Len(s) => After(s, c) = <<>>
         /\ Len(Piece(s, c)) # Len(s) =>
              /\ Len(After(s, c)) = Len(s) - Len(Piece(s, c)) - 1
              /\ \A k \in 1 .. Len(After(s, c)) :
                   After(s, c)[k] = s[Len(Piece(s, c)) + 1 + k]
<1>. USE UriAssumption DEF UriAssumption
<1>. DEFINE cut == Find(s, c)
<1>1. Len(s) \in Nat /\ Len(s) < Npos
  BY DEF IsText
<1>2. 0 \in 0 .. Len(s) /\ Len(s) - 0 = Len(s)
  BY <1>1
<1>3. ASSUME NEW n \in Nat
      PROVE  Len(SubStr(s, 0, n)) = IF n < Len(s) THEN n ELSE Len(s)
  BY <1>2, SubStrFacts
<1>4. cut = Npos \/ cut \in 0 .. Len(s) - 1
  BY FindFacts DEF Find
<1>5. Piece(s, c) = SubStr(s, 0, cut)
  BY DEF Piece
<1>6. After(s, c) = IF cut = Npos THEN <<>> ELSE SubStr(s, cut + 1, Len(s))
  BY DEF After
<1>. HIDE DEF cut
<1>7. CASE cut = Npos
  BY <1>1, <1>3, <1>5, <1>6, <1>7
<1>8. CASE cut \in 0 .. Len(s) - 1
  <2>1. cut \in Nat /\ cut < Len(s) /\ cut + 1 \in 0 .. Len(s) /\ cut # Npos
    BY <1>1, <1>8
  <2>2. Len(Piece(s, c)) = cut
    BY <1>3, <1>5, <2>1
  <2>3. /\ Len(SubStr(s, cut + 1, Len(s))) =
             IF Len(s) < Len(s) - (cut + 1) THEN Len(s) ELSE Len(s) - (cut + 1)
        /\ \A k \in 1 .. Len(SubStr(s, cut + 1, Len(s))) :
             SubStr(s, cut + 1, Len(s))[k] = s[cut + 1 + k]
    BY <1>1, <2>1, SubStrFacts
  <2>4. Len(SubStr(s, cut + 1, Len(s))) = Len(s) - cut - 1
    BY <1>1, <2>1, <2>3
  <2>. QED
    BY <1>6, <2>1, <2>2, <2>3, <2>4
<1>. QED
  BY <1>4, <1>7, <1>8

-----------------------------------------------------------------------------
(* r is what remains of query q at the beginning of a round of the loop.   *)
Remains(q, r) ==
  /\ Len(r) <= Len(q)
  /\ \A k \in 1 .. Len(r) : r[k] = q[Len(q) - Len(r) + k]
  /\ r = <<>> \/ Len(r) = Len(q) \/ q[Len(q) - Len(r)] = "&"

(* The pairs that were read when r remains, and the one that is read next. *)
Consumed(q, r) == {p \in Pairs(q) : p[1] <= Len(q) - Len(r)}
Key(r) == Piece(Piece(r, "&"), "=")
Upcoming(q, r) ==
  LET n == Len(q) - Len(r)
  IN  <<n + 1, n + Len(Piece(r, "&")), n + Len(Key(r)) + 1>>

(* A round leaves a rest of the query that begins behind a delimiter.      *)
LEMMA RestRemains ==
  ASSUME NEW q, IsText(q), NEW r, IsText(r), r # <<>>, Remains(q, r)
  PROVE  /\ Remains(q, After(r, "&"))
         /\ Len(q) - Len(After(r, "&")) =
              IF Len(Piece(r, "&")) = Len(r) THEN Len(q)
                ELSE Len(q) - Len(r) + Len(Piece(r, "&")) + 1
<1>. DEFINE n == Len(q) - Len(r)
            l == Len(Piece(r, "&"))
            a == After(r, "&")
<1>1. /\ Len(q) \in Nat /\ Len(r) \in Nat /\ l \in Nat /\ l <= Len(r)
      /\ l = Len(r) \/ r[l + 1] = "&"
      /\ a \in Seq(Chars)
  BY PieceFacts DEF IsText
<1>2. n \in Nat /\ \A k \in 1 .. Len(r) : r[k] = q[n + k]
  BY <1>1 DEF Remains
<1>3. CASE l = Len(r)
  <2>1. a = <<>>
    BY <1>3, AfterFacts
  <2>. QED
    BY <1>1, <1>3, <2>1 DEF Remains
<1>4. CASE l # Len(r)
  <2>1. Len(a) = Len(r) - l - 1 /\ \A k \in 1 .. Len(a) : a[k] = r[l + 1 + k]
    BY <1>4, AfterFacts
  <2>2. /\ Len(a) \in Nat /\ Len(a) <= Len(q)
        /\ Len(q) - Len(a) = Len(q) - Len(r) + l + 1
    <3>1. Len(a) = Len(r) - l - 1 /\ Len(a) \in Nat
      BY <1>1, <2>1
    <3>2. Len(r) <= Len(q)
      BY DEF Remains
    <3>. HIDE DEF a, l
    <3>. QED
      BY <1>1, <3>1, <3>2
  <2>3. ASSUME NEW k \in 1 .. Len(a) PROVE a[k] = q[Len(q) - Len(a) + k]
    <3>1. k \in Nat /\ l + 1 + k \in 1 .. Len(r)
      BY <1>1, <2>1, <2>2
    <3>2. a[k] = q[n + (l + 1 + k)]
      BY <1>2, <2>1, <3>1
    <3>3. n + (l + 1 + k) = Len(q) - Len(a) + k
      BY <1>1, <2>2, <3>1
    <3>. QED
      BY <3>2, <3>3
  <2>4. q[Len(q) - Len(a)] = "&"
    <3>1. l + 1 \in 1 .. Len(r) /\ n + (l + 1) = Len(q) - Len(a)
      BY <1>1, <1>2, <1>4, <2>2
    <3>2. r[l + 1] = q[n + (l + 1)]
      BY <1>2, <3>1
    <3>. QED
      BY <1>1, <1>4, <3>1, <3>2
  <2>5. Remains(q, a)
    BY <2>2, <2>3, <2>4 DEF Remains
  <2>. QED
    BY <1>4, <2>2, <2>5
<1>. QED
  BY <1>3, <1>4

(* The upcoming pair is a pair of the query, and no other pair begins in   *)
(* the part of the query that the round reads.                             *)
LEMMA RoundReadsOnePair ==
  ASSUME NEW q, IsText(q), NEW r, IsText(r), r # <<>>, Remains(q, r)
  PROVE  /\ Upcoming(q, r) \in Pairs(q) \ Consumed(q, r)
         /\ Consumed(q, After(r, "&")) = Consumed(q, r) \cup {Upcoming(q, r)}
         /\ \A p \in Consumed(q, r) : p[1] < Upcoming(q, r)[1]
<1>. DEFINE n == Len(q) - Len(r)
            l == Len(Piece(r, "&"))
            e == Len(Key(r))
            u == Upcoming(q, r)
<1>1. /\ Len(q) \in Nat /\ Len(r) \in Nat /\ Len(r) > 0
      /\ n \in Nat /\ n < Len(q) /\ n + Len(r) = Len(q)
  <2>1. Len(q) \in Nat /\ Len(r) \in Nat /\ Len(r) # 0
    BY DEF IsText
  <2>. QED
    BY <2>1 DEF Remains
<1>2. /\ IsText(Piece(r, "&")) /\ l \in Nat /\ l <= Len(r)
      /\ \A k \in 1 .. l : Piece(r, "&")[k] = r[k] /\ r[k] # "&"
      /\ l = Len(r) \/ r[l + 1] = "&"
  BY PieceFacts DEF IsText
<1>3. /\ e \in Nat /\ e <= l
      /\ \A k \in 1 .. e : Piece(r, "&")[k] # "="
      /\ e = l \/ Piece(r, "&")[e + 1] = "="
  BY <1>2, PieceFacts DEF IsText, Key
<1>4. \A k \in 1 .. Len(r) : q[n + k] = r[k]
  BY DEF Remains
<1>5. n = 0 \/ q[n] = "&"
  BY <1>1 DEF Remains
<1>6. u = <<n + 1, n + l, n + e + 1>>
  BY DEF Upcoming
<1>. HIDE DEF n, l, e, u
<1>7. /\ \A k \in n + 1 .. n + l : q[k] # "&"
      /\ n + l = Len(q) \/ q[n + l + 1] = "&"
      /\ \A k \in n + 1 .. n + e : q[k] # "="
      /\ e = l \/ q[n + e + 1] = "="
  <2>1. ASSUME NEW k \in n + 1 .. n + l
        PROVE  k - n \in 1 .. l /\ q[k] = r[k - n] /\ r[k - n] = Piece(r, "&")[k - n]
    <3>1. k - n \in 1 .. l /\ k - n \in 1 .. Len(r) /\ n + (k - n) = k
      BY <1>1, <1>2
    <3>. QED
      BY <1>2, <1>4, <3>1
  <2>2. \A k \in n + 1 .. n + l : q[k] # "&"
    BY <1>2, <2>1
  <2>3. n + l = Len(q) \/ q[n + l + 1] = "&"
    <3>1. CASE l = Len(r)
      BY <1>1, <3>1
    <3>2. CASE l # Len(r)
      <4>1. l + 1 \in 1 .. Len(r) /\ n + (l + 1) = n + l + 1
        BY <1>1, <1>2, <3>2
      <4>. QED
        BY <1>2, <1>4, <3>2, <4>1
    <3>. QED
      BY <3>1, <3>2
  <2>4. ASSUME NEW k \in n + 1 .. n + e PROVE q[k] # "="
    <3>1. k \in n + 1 .. n + l /\ k - n \in 1 .. e
      BY <1>1, <1>2, <1>3
    <3>. QED
      BY <1>3, <2>1, <3>1
  <2>5. ASSUME e # l PROVE q[n + e + 1] = "="
    <3>1. n + e + 1 \in n + 1 .. n + l /\ (n + e + 1) - n = e + 1
      BY <1>1, <1>2, <1>3, <2>5
    <3>. QED
      BY <1>3, <2>1, <2>5, <3>1
  <2>. QED
    BY <2>2, <2>3, <2>4, <2>5
<1>8. u \in Pairs(q)
  <2>1. n + 1 \in 1 .. Len(q) /\ n + l \in 0 .. Len(q) /\ n + e + 1 \in 1 .. Len(q) + 1
    BY <1>1, <1>2, <1>3
  <2>2. /\ n + 1 = 1 \/ q[(n + 1) - 1] = "&"
        /\ n + l >= (n + 1) - 1
        /\ n + e + 1 \in n + 1 .. n + l + 1
        /\ n + e + 1 = n + l + 1 \/ q[n + e + 1] = "="
        /\ (n + e + 1) - 1 = n + e
    BY <1>1, <1>2, <1>3, <1>5, <1>7
  <2>. QED
    BY <1>6, <1>7, <2>1, <2>2 DEF Pairs
<1>9. ASSUME NEW p \in Pairs(q), p[1] > n, p[1] <= Len(q) - Len(After(r, "&"))
      PROVE  p = u
  <2>. DEFINE a == p[1]
              b == p[2]
              m == p[3]
  <2>1. /\ a \in 1 .. Len(q) /\ b \in 0 .. Len(q) /\ m \in 1 .. Len(q) + 1
        /\ p = <<a, b, m>>
        /\ a = 1 \/ q[a - 1] = "&"
        /\ b >= a - 1 /\ (b = Len(q) \/ q[b + 1] = "&")
        /\ m \in a .. b + 1 /\ (m = b + 1 \/ q[m] = "=")
        /\ \A k \in a .. b : q[k] # "&"
        /\ \A k \in a .. m - 1 : q[k] # "="
    BY DEF Pairs
  <2>2. a > n /\ a <= Len(q) - Len(After(r, "&"))
    BY <1>9
  <2>. HIDE DEF a, b, m
  <2>3. a <= n + l + 1
    <3>1. Len(q) - Len(After(r, "&")) = IF l = Len(r) THEN Len(q) ELSE n + l + 1
      BY RestRemains DEF n, l
    <3>. QED
      BY <1>1, <1>2, <2>1, <2>2, <3>1
  <2>4. a = n + 1
    <3>1. CASE a > n + 1
      <4>1. a - 1 \in n + 1 .. n + l /\ a # 1
        BY <1>1, <1>2, <2>1, <2>3, <3>1
      <4>. QED
        BY <1>7, <2>1, <4>1
    <3>. QED
      BY <1>1, <2>1, <2>2, <3>1
  <2>5. b = n + l
    <3>1. CASE b < n + l
      <4>1. b + 1 \in n + 1 .. n + l /\ b # Len(q)
        BY <1>1, <1>2, <2>1, <2>4, <3>1
      <4>. QED
        BY <1>7, <2>1, <4>1
    <3>2. CASE b > n + l
      <4>1. n + l + 1 \in a .. b /\ n + l # Len(q)
        BY <1>1, <1>2, <2>1, <2>4, <3>2
      <4>. QED
        BY <1>7, <2>1, <4>1
    <3>. QED
      BY <1>1, <1>2, <2>1, <3>1, <3>2
  <2>6. m = n + e + 1
    <3>1. CASE m < n + e + 1
      <4>1. m \in n + 1 .. n + e /\ m # b + 1
        BY <1>1, <1>2, <1>3, <2>1, <2>4, <2>5, <3>1
      <4>. QED
        BY <1>7, <2>1, <4>1
    <3>2. CASE m > n + e + 1
      <4>1. n + e + 1 \in a .. m - 1 /\ e # l
        BY <1>1, <1>2, <1>3, <2>1, <2>4, <2>5, <3>2
      <4>. QED
        BY <1>7, <2>1, <4>1
    <3>. QED
      BY <1>1, <1>3, <2>1, <3>1, <3>2
  <2>. QED
    BY <1>6, <2>1, <2>4, <2>5, <2>6
<1>10. u[1] > n /\ u[1] <= Len(q) - Len(After(r, "&")) /\ n <= Len(q) - Len(After(r, "&"))
  <2>1. Len(q) - Len(After(r, "&")) = IF l = Len(r) THEN Len(q) ELSE n + l + 1
    BY RestRemains DEF n, l
  <2>. QED
    BY <1>1, <1>2, <1>6, <2>1
<1>11. \A p \in Pairs(q) : p[1] \in Nat
  BY <1>1 DEF Pairs
<1>12. /\ Consumed(q, r) = {p \in Pairs(q) : p[1] <= n}
       /\ Consumed(q, After(r, "&")) =
            {p \in Pairs(q) : p[1] <= Len(q) - Len(After(r, "&"))}
  BY DEF Consumed, n
<1>13. Len(q) - Len(After(r, "&")) \in Int
  BY <1>1, PieceFacts DEF IsText
<1>14. \A p \in Pairs(q) :
         p[1] <= Len(q) - Len(After(r, "&")) <=> p[1] <= n \/ p = u
  BY <1>1, <1>8, <1>9, <1>10, <1>11, <1>13
<1>15. u[1] \in Nat
  BY <1>8, <1>11
<1>. QED
  BY <1>1, <1>8, <1>10, <1>11, <1>12, <1>14, <1>15 DEF u

-----------------------------------------------------------------------------
(* The values v after the pairs D of q, when payload is what the body gave. *)
WrittenFrom(q, D, v) ==
  /\ DOMAIN v = DOMAIN payload \cup {KeyOf(q, p) : p \in D}
  /\ \A k \in DOMAIN payload :
       (\A p \in D : KeyOf(q, p) # k) => v[k] = payload[k]
  /\ \A p \in D : IsLast(q, D, p) => v[KeyOf(q, p)] = Convert(WrittenText(q, p))

(* A text whose characters are those of q from position a + 1 to b.        *)
LEMMA SubSeqIs ==
  ASSUME NEW q, IsText(q), NEW t, IsText(t), NEW a \in Nat, NEW b \in Nat,
         b = a + Len(t), b <= Len(q),
         \A k \in 1 .. Len(t) : t[k] = q[a + k]
  PROVE  SubSeq(q, a + 1, b) = t
<1>. DEFINE z == SubSeq(q, a + 1, b)
<1>1. q \in Seq(Chars) /\ t \in Seq(Chars) /\ Len(q) \in Nat /\ Len(t) \in Nat
  BY DEF IsText
<1>2. z \in Seq(Chars) /\ Len(z) = Len(t)
  BY <1>1
<1>3. \A k \in 1 .. Len(t) : z[k] = q[a + k]
  BY <1>1
<1>. HIDE DEF z
<1>4. z = t
  BY <1>1, <1>2, <1>3, SeqEqual
<1>. QED
  BY <1>4 DEF z

LEMMA ConcatBehind ==
  ASSUME NEW s \in Seq(Chars), NEW t \in Seq(Chars)
  PROVE  /\ Len(s \o t) = Len(s) + Len(t)
         /\ \A k \in 1 .. Len(t) : (s \o t)[Len(s) + k] = t[k]
OBVIOUS

(* Key and value of the pair the loop reads are those of the query.        *)
LEMMA RoundReadsTexts ==
  ASSUME IsText(Query), IsText(rest), rest # <<>>, Remains(Query, rest)
  PROVE  LET u == Upcoming(Query, rest)
         IN  /\ KeyOf(Query, u) = PairKey
             /\ WrittenText(Query, u) = PairVal
<1>. USE UriAssumption DEF UriAssumption
<1>. DEFINE q == Query
            n == Len(q) - Len(rest)
            l == Len(Pair)
            e == Len(PairKey)
            u == Upcoming(q, rest)
<1>0. IsText(q)
  OBVIOUS
<1>1. /\ IsText(Pair) /\ l \in Nat /\ l <= Len(rest)
      /\ \A k \in 1 .. l : Pair[k] = rest[k]
      /\ IsText(PairKey) /\ e \in Nat /\ e <= l
      /\ \A k \in 1 .. e : PairKey[k] = Pair[k]
  <2>1. IsText(Pair) /\ PairKey = Piece(Pair, "=")
    BY PieceFacts DEF Pair, PairKey, PairCut, Piece
  <2>. QED
    BY <2>1, PieceFacts DEF Pair, IsText
<1>2. u = <<n + 1, n + l, n + e + 1>>
  BY DEF Upcoming, Key, Pair, PairKey, PairCut, Piece
<1>3. /\ Len(q) \in Nat /\ Len(rest) \in Nat /\ n \in Nat /\ n + Len(rest) = Len(q)
      /\ \A k \in 1 .. Len(rest) : rest[k] = q[n + k]
  BY DEF Remains, IsText
<1>4. ASSUME NEW k \in 1 .. l PROVE Pair[k] = q[n + k]
  BY <1>1, <1>3
<1>5. /\ n \in Nat /\ e \in Nat /\ l \in Nat /\ Len(q) \in Nat
      /\ e <= l /\ n + l <= Len(q)
  BY <1>1, <1>3
<1>. HIDE DEF q, n, l, e, u
<1>6. KeyOf(q, u) = PairKey
  <2>1. n + e \in Nat /\ n + e <= Len(q) /\ n + e + 1 - 1 = n + e
    BY <1>1, <1>3
  <2>2. \A k \in 1 .. e : PairKey[k] = q[n + k]
    BY <1>1, <1>4
  <2>3. SubSeq(q, n + 1, n + e) = PairKey
    BY <1>0, <1>1, <1>3, <2>1, <2>2, SubSeqIs DEF e
  <2>4. u[1] = n + 1 /\ u[3] - 1 = n + e
    BY <1>2, <1>5
  <2>. QED
    BY <2>3, <2>4 DEF KeyOf
<1>7. ASSUME HasValue(u) PROVE TextOf(q, u) = PairVal
  <2>1. e < l
    BY <1>1, <1>2, <1>3, <1>7 DEF HasValue
  <2>2. PairCut # Npos
    <3>1. CASE PairCut = Npos
      <4>1. 0 \in 0 .. l /\ l - 0 = l /\ l < Npos
        BY <1>1 DEF l, IsText
      <4>2. e = IF Npos < l - 0 THEN Npos ELSE l - 0
        BY <1>1, <3>1, <4>1, SubStrFacts DEF PairKey, e, l
      <4>. QED
        BY <1>1, <2>1, <4>1, <4>2
    <3>. QED
      BY <3>1
  <2>3. IsText(PairVal) /\ PairKey \o <<"=">> \o PairVal = Pair
    BY <1>1, <2>2, CutFacts DEF PairCut, PairKey, PairVal
  <2>4. /\ Len(PairVal) \in Nat /\ e + 1 + Len(PairVal) = l
        /\ \A k \in 1 .. Len(PairVal) : PairVal[k] = Pair[e + 1 + k]
    <3>1. /\ PairKey \in Seq(Chars) /\ PairVal \in Seq(Chars) /\ Pair \in Seq(Chars)
          /\ "=" \in Chars
      <4>1. "=" \in Chars
        <5>1. PairCut \in 0 .. Len(Pair) - 1 /\ Pair[PairCut + 1] = "="
          BY <1>1, <2>2, FindFacts DEF PairCut, Find
        <5>. QED
          BY <1>1, <5>1 DEF IsText
      <4>. QED
        BY <1>1, <2>3, <4>1 DEF IsText
    <3>. DEFINE head == PairKey \o <<"=">>
    <3>2. head \in Seq(Chars) /\ Len(head) = e + 1
      BY <3>1 DEF e
    <3>. HIDE DEF head
    <3>3. /\ Len(head \o PairVal) = Len(head) + Len(PairVal)
          /\ \A k \in 1 .. Len(PairVal) : (head \o PairVal)[Len(head) + k] = PairVal[k]
      BY <3>1, <3>2, ConcatBehind
    <3>4. head \o PairVal = Pair
      BY <2>3 DEF head
    <3>5. Len(PairVal) \in Nat
      BY <3>1
    <3>. QED
      BY <3>2, <3>3, <3>4, <3>5 DEF l
  <2>. DEFINE v == Len(PairVal)
              a == n + e + 1
  <2>. HIDE DEF v
  <2>5. a \in Nat /\ n + l \in Nat /\ n + l = a + v /\ n + l <= Len(q) /\ v \in Nat
    BY <1>5, <2>4 DEF v
  <2>6. ASSUME NEW k \in 1 .. v PROVE PairVal[k] = q[a + k]
    <3>1. k \in Nat /\ e + 1 + k \in 1 .. l
      BY <1>1, <2>4, <2>5 DEF v
    <3>2. n + (e + 1 + k) = n + e + 1 + k
      BY <1>1, <1>3, <3>1
    <3>. QED
      BY <1>4, <2>4, <3>1, <3>2 DEF v
  <2>. HIDE DEF a
  <2>7. SubSeq(q, a + 1, n + l) = PairVal
    BY <1>0, <2>3, <2>5, <2>6, SubSeqIs DEF v
  <2>8. TextOf(q, u) = SubSeq(q, a + 1, n + l)
    BY <1>2 DEF TextOf, a
  <2>. QED
    BY <2>7, <2>8
<1>8. ASSUME ~HasValue(u) PROVE SubSeq(PairKey, 1, e - 1) = PairVal
  <2>1. e = l
    BY <1>2, <1>5, <1>8 DEF HasValue
  <2>2. 0 \in 0 .. l /\ l - 0 = l /\ l < Npos /\ Pair \in Seq(Chars)
    BY <1>1 DEF l, IsText
  <2>3. PairCut = Npos
    <3>1. CASE PairCut \in 0 .. l - 1
      <4>1. PairCut \in Nat /\ PairCut < l
        BY <1>5, <3>1
      <4>2. e = IF PairCut < l - 0 THEN PairCut ELSE l - 0
        BY <1>1, <2>2, <4>1, SubStrFacts DEF PairKey, e, l
      <4>. QED
        BY <2>1, <2>2, <4>1, <4>2
    <3>. QED
      BY <1>1, <3>1, FindFacts DEF PairCut, Find, l
  <2>4. PairKey = Pair
    <3>1. PairKey = SubSeq(Pair, 1, l)
      <4>1. l = Len(Pair) /\ ~(Npos < l - 0) /\ 0 + 1 = 1
        BY <1>5, <2>2 DEF l
      <4>. QED
        BY <2>3, <4>1 DEF PairKey, SubStr
    <3>2. SubSeq(Pair, 1, Len(Pair)) = Pair
      BY <2>2
    <3>. QED
      BY <3>1, <3>2 DEF l
  <2>5. Wrap(PairCut + 1) = 0
    BY <2>3 DEF Wrap
  <2>6. CASE l = 0
    <3>1. SubStr(Pair, 0, Minus1(l)) = <<>>
      BY <2>2, <2>6 DEF SubStr, Minus1, Wrap, l
    <3>2. SubSeq(PairKey, 1, e - 1) = <<>>
      BY <2>1, <2>2, <2>4, <2>6
    <3>. QED
      BY <2>5, <3>1, <3>2 DEF PairVal, l
  <2>7. CASE l # 0
    <3>1. Minus1(l) = l - 1
      BY <1>5, <2>2, <2>7 DEF Minus1, Wrap
    <3>2. SubStr(Pair, 0, l - 1) = SubSeq(Pair, 1, l - 1)
      <4>1. l = Len(Pair) /\ l - 1 < l - 0 /\ 0 + 1 = 1 /\ 0 + (l - 1) = l - 1
        BY <1>5, <2>7 DEF l
      <4>. QED
        BY <4>1 DEF SubStr
    <3>. QED
      BY <2>1, <2>4, <2>5, <3>1, <3>2 DEF PairVal, l
  <2>. QED
    BY <2>6, <2>7
<1>9. WrittenText(q, u) = PairVal
  BY <1>6, <1>7, <1>8 DEF WrittenText, e
<1>. QED
  BY <1>6, <1>9 DEF q, u

(* One insertion extends the values by one pair, which hides older pairs   *)
(* with its key and what the body gave for it.                             *)
LEMMA InsertExtends ==
  ASSUME NEW q, IsText(q), NEW D \in SUBSET Pairs(q), NEW u \in Pairs(q),
         \A p \in D : p[1] < u[1],
         WrittenFrom(q, D, values),
         NEW val, val = Convert(WrittenText(q, u))
  PROVE  WrittenFrom(q, D \cup {u}, Insert(KeyOf(q, u), val))
<1>. DEFINE E == D \cup {u}
            key == KeyOf(q, u)
            w == Insert(key, val)
<1>1. /\ DOMAIN w = DOMAIN values \cup {key}
      /\ w[key] = val
      /\ \A k \in DOMAIN values : k # key => w[k] = values[k]
  BY DEF Insert
<1>. HIDE DEF w
<1>2. DOMAIN w = DOMAIN payload \cup {KeyOf(q, p) : p \in E}
  BY <1>1 DEF WrittenFrom
<1>3. ASSUME NEW k \in DOMAIN payload, \A p \in E : KeyOf(q, p) # k
      PROVE  w[k] = payload[k]
  BY <1>1, <1>3 DEF WrittenFrom
<1>4. ASSUME NEW p \in E, IsLast(q, E, p)
      PROVE  w[KeyOf(q, p)] = Convert(WrittenText(q, p))
  <2>1. CASE p = u
    BY <1>1, <1>4, <2>1
  <2>2. CASE p # u
    <3>1. p \in D /\ p[1] < u[1] /\ p[1] \in Nat /\ u[1] \in Nat
      BY <2>2 DEF Pairs, IsText
    <3>2. KeyOf(q, p) # key
      BY <1>4, <3>1 DEF IsLast
    <3>3. values[KeyOf(q, p)] = Convert(WrittenText(q, p))
      BY <1>4, <3>1 DEF IsLast, WrittenFrom
    <3>4. KeyOf(q, p) \in DOMAIN values
      BY <3>1 DEF WrittenFrom
    <3>. QED
      BY <1>1, <3>2, <3>3, <3>4
  <2>. QED
    BY <2>1, <2>2
<1>. QED
  BY <1>2, <1>3, <1>4 DEF WrittenFrom, w

-----------------------------------------------------------------------------
(* The invariant of the loop: the query was read up to the rest, and the   *)
(* values are those of the pairs before it.                                *)
LoopInv ==
  pc = "pairs" =>
    /\ Remains(Query, rest)
    /\ WrittenFrom(Query, Consumed(Query, rest), values)

ValuesInv == LoopInv /\ ValuesAsWritten

(* Before the first round nothing was read.                                *)
LEMMA LoopBegins ==
  ASSUME NEW q, IsText(q)
  PROVE  Remains(q, q) /\ Consumed(q, q) = {}
<1>1. Len(q) \in Nat /\ Len(q) - Len(q) = 0
  BY DEF IsText
<1>2. \A p \in Pairs(q) : p[1] > 0 /\ p[1] \in Nat
  BY <1>1 DEF Pairs
<1>. QED
  BY <1>1, <1>2 DEF Remains, Consumed

(* A round reads one pair and inserts it.                                  *)
LEMMA LoopContinues ==
  ASSUME UriInv, LoopInv, NextPair
  PROVE  LoopInv'
<1>1. IsText(Query) /\ IsText(rest) /\ rest # <<>> /\ Remains(Query, rest)
  BY PieceFacts DEF UriInv, LoopInv, NextPair, Query
<1>. DEFINE u == Upcoming(Query, rest)
            D == Consumed(Query, rest)
<1>2. /\ u \in Pairs(Query) /\ D \in SUBSET Pairs(Query)
      /\ Consumed(Query, After(rest, "&")) = D \cup {u}
      /\ \A p \in D : p[1] < u[1]
      /\ Remains(Query, After(rest, "&"))
  BY <1>1, RoundReadsOnePair, RestRemains DEF Consumed
<1>3. KeyOf(Query, u) = PairKey /\ WrittenText(Query, u) = PairVal
  BY <1>1, RoundReadsTexts
<1>4. WrittenFrom(Query, D, values)
  BY DEF LoopInv, NextPair
<1>. HIDE DEF u, D
<1>5. WrittenFrom(Query, D \cup {u}, Insert(PairKey, Convert(PairVal)))
  <2>. DEFINE val == Convert(PairVal)
  <2>1. val = Convert(WrittenText(Query, u))
    BY <1>3
  <2>. HIDE DEF val
  <2>2. WrittenFrom(Query, D \cup {u}, Insert(KeyOf(Query, u), val))
    BY <1>1, <1>2, <1>4, <2>1, InsertExtends
  <2>. QED
    BY <1>3, <2>2 DEF val
<1>6. /\ Query' = Query /\ payload' = payload /\ rest' = After(rest, "&")
      /\ values' = Insert(PairKey, Convert(PairVal))
  BY DEF NextPair, input, Query
<1>7. Remains(Query', rest') /\ Consumed(Query', rest') = D \cup {u}
  BY <1>2, <1>6
<1>. QED
  BY <1>5, <1>6, <1>7 DEF LoopInv, WrittenFrom

(* When nothing remains all pairs were read; the token comes last.         *)
LEMMA LoopEnds ==
  ASSUME UriInv, LoopInv, AddToken
  PROVE  ValuesAsWritten'
<1>1. IsText(Query) /\ pc = "pairs" /\ rest = <<>>
  BY PieceFacts DEF UriInv, AddToken, Query
<1>2. Consumed(Query, rest) = Pairs(Query)
  <2>1. Len(Query) \in Nat /\ Len(rest) = 0
    BY <1>1 DEF IsText
  <2>2. \A p \in Pairs(Query) : p[1] <= Len(Query) - Len(rest)
    BY <2>1 DEF Pairs
  <2>. QED
    BY <2>2 DEF Consumed
<1>3. WrittenFrom(Query, Pairs(Query), values)
  BY <1>1, <1>2 DEF LoopInv
<1>4. Query' = Query /\ payload' = payload
  BY DEF AddToken, input, Query
<1>5. /\ DOMAIN values' = DOMAIN values \cup {TokenKey}
      /\ \A k \in DOMAIN values : k # TokenKey => values'[k] = values[k]
  BY DEF AddToken, Insert
<1>. DEFINE pairs == Pairs(Query)
            keys == {KeyOf(Query, p) : p \in pairs}
<1>6. DOMAIN values' = DOMAIN payload \cup keys \cup {TokenKey}
  BY <1>3, <1>5 DEF WrittenFrom
<1>7. \A k \in DOMAIN values : Gives(Query, pairs, k, values[k])
  BY <1>3 DEF WrittenFrom, Gives
<1>8. ASSUME NEW k \in DOMAIN values'
      PROVE  Gives(Query, pairs, k, values'[k]) \/ (k = TokenKey /\ values'[k] = Token)
  <2>1. CASE k # TokenKey \/ values' = values
    BY <1>5, <1>7, <1>8, <2>1
  <2>2. CASE k = TokenKey /\ values' # values
    BY <2>2 DEF AddToken, Insert
  <2>. QED
    BY <2>1, <2>2
<1>. QED
  BY <1>4, <1>6, <1>8 DEF ValuesAsWritten, Gives

LEMMA ValuesInvariant == Spec => []ValuesInv
<1>1. Init => ValuesInv
  BY DEF Init, ValuesInv, LoopInv, ValuesAsWritten
<1>2. UriInv /\ ValuesInv /\ [Next]_vars => ValuesInv'
  <2>. SUFFICES ASSUME UriInv, ValuesInv, [Next]_vars PROVE ValuesInv'
    OBVIOUS
  <2>. USE DEF ValuesInv
  <2>1. CASE CheckPath
    BY <2>1 DEF CheckPath, LoopInv, ValuesAsWritten
  <2>2. CASE CutPath
    BY <2>2 DEF CutPath, LoopInv, ValuesAsWritten
  <2>3. CASE RejectUri
    BY <2>3 DEF RejectUri, LoopInv, ValuesAsWritten
  <2>4. CASE SplitMainPart
    <3>1. CASE pc' = "pairs"
      <4>1. /\ rest' = Query /\ Query' = Query
            /\ values' = payload /\ payload' = payload
        BY <2>4, <3>1 DEF SplitMainPart, input, Query
      <4>2. IsText(Query)
        BY PieceFacts DEF UriInv, Query
      <4>3. Remains(Query, Query) /\ Consumed(Query, Query) = {}
        BY <4>2, LoopBegins
      <4>4. Remains(Query', rest') /\ Consumed(Query', rest') = {}
        BY <4>1, <4>3
      <4>. QED
        BY <3>1, <4>1, <4>4 DEF LoopInv, ValuesAsWritten, WrittenFrom
    <3>2. CASE pc' # "pairs"
      BY <2>4, <3>2 DEF SplitMainPart, LoopInv, ValuesAsWritten
    <3>. QED
      BY <3>1, <3>2
  <2>5. CASE NextPair
    <3>1. LoopInv'
      BY <2>5, LoopContinues
    <3>. QED
      BY <2>5, <3>1 DEF NextPair, ValuesAsWritten
  <2>6. CASE PairThrows
    BY <2>6 DEF PairThrows, LoopInv, ValuesAsWritten
  <2>7. CASE AddToken
    <3>1. ValuesAsWritten'
      BY <2>7, LoopEnds
    <3>. QED
      BY <2>7, <3>1 DEF AddToken, LoopInv
  <2>8. CASE UNCHANGED vars
    BY <2>8 DEF vars, LoopInv, ValuesAsWritten, Gives, WrittenFrom, Consumed, Remains, Query
  <2>. QED
    BY <2>1, <2>2, <2>3, <2>4, <2>5, <2>6, <2>7, <2>8 DEF Next
<1>. QED
  BY <1>1, <1>2, Invariance, PTL DEF Spec

(* For every query the message holds what its pairs and the body define:   *)
(* the last pair of a key counts, pairs count more than the body, the body *)
(* keeps what no pair names.  What stands under the name of the token is   *)
(* the token, or was defined under that name by the query or the body.     *)
THEOREM MessageAsWritten == Spec => []ValuesAsWritten
<1>1. ValuesInv => ValuesAsWritten
  BY DEF ValuesInv
<1>. QED
  BY <1>1, ValuesInvariant, PTL

(* Of the pairs with one key there is a last one.                          *)
LEMMA LastPairExists ==
  ASSUME NEW q, IsText(q), NEW p \in Pairs(q)
  PROVE  \E last \in Pairs(q) :
           /\ KeyOf(q, last) = KeyOf(q, p)
           /\ IsLast(q, Pairs(q), last)
<1>. DEFINE P == {r \in Pairs(q) : KeyOf(q, r) = KeyOf(q, p)}
            T == {Len(q) - r[1] : r \in P}
<1>1. \A r \in Pairs(q) : r[1] \in Nat /\ Len(q) - r[1] \in Nat
  BY DEF Pairs, IsText
<1>2. T \in SUBSET Nat /\ T # {}
  BY <1>1
<1>3. PICK x \in T : \A y \in T : x <= y
  BY <1>2, LeastNumber
<1>4. PICK last \in P : x = Len(q) - last[1]
  BY <1>3
<1>5. ASSUME NEW r \in P PROVE r[1] <= last[1]
  <2>1. Len(q) - last[1] <= Len(q) - r[1]
    BY <1>3, <1>4
  <2>2. r[1] \in Nat /\ last[1] \in Nat /\ Len(q) \in Nat
    BY <1>1, <1>4 DEF IsText
  <2>. QED
    BY <2>1, <2>2
<1>. QED
  BY <1>4, <1>5 DEF IsLast

EveryPairHasValue == \A p \in Pairs(Query) : HasValue(p)

(* The values of a query with a '=' in every pair come from the uri: only  *)
(* a pair without '=' can give a value that does not stand behind one.     *)
THEOREM CompletePairsGiveTheirValues ==
  Spec => [](EveryPairHasValue => ValuesComeFromUri)
<1>1. UriInv /\ ValuesInv => (EveryPairHasValue => ValuesComeFromUri)
  <2>. SUFFICES ASSUME UriInv, ValuesAsWritten, EveryPairHasValue, pc = "ok",
                       NEW p \in Pairs(Query), KeyOf(Query, p) # TokenKey
                PROVE  \E r \in Pairs(Query) :
                         HasValue(r) /\ values[KeyOf(Query, p)] = Convert(TextOf(Query, r))
    BY DEF ValuesInv, ValuesComeFromUri
  <2>1. IsText(Query)
    BY PieceFacts DEF UriInv, Query
  <2>2. PICK last \in Pairs(Query) :
          /\ KeyOf(Query, last) = KeyOf(Query, p)
          /\ IsLast(Query, Pairs(Query), last)
    BY <2>1, LastPairExists
  <2>3. HasValue(last)
    BY DEF EveryPairHasValue
  <2>4. values[KeyOf(Query, last)] = Convert(TextOf(Query, last))
    <3>1. KeyOf(Query, last) \in DOMAIN values
      BY DEF ValuesAsWritten
    <3>2. Gives(Query, Pairs(Query), KeyOf(Query, last), values[KeyOf(Query, last)])
      BY <2>2, <3>1 DEF ValuesAsWritten
    <3>3. values[KeyOf(Query, last)] = Convert(WrittenText(Query, last))
      BY <2>2, <3>2 DEF Gives
    <3>. QED
      BY <2>3, <3>3 DEF WrittenText
  <2>. QED
    BY <2>2, <2>3, <2>4
<1>. QED
  BY <1>1, Invariance, ValuesInvariant, PTL
=============================================================================
