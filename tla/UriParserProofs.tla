---------------------------- MODULE UriParserProofs ----------------------------
(***************************************************************************)
(* Theorems about UriParser for every alphabet and every text shorter than *)
(* npos.                                                                   *)
(***************************************************************************)
EXTENDS UriParser, SequenceTheorems, WellFoundedInduction, TLAPS

(* A text as std::string can hold it.                                      *)
IsText(s) == s \in Seq(Chars) /\ Len(s) < Npos

Before == {p \in Nat \X Nat : p[1] < p[2]}

(* A set of natural numbers has a least element.                           *)
LEMMA LeastNumber ==
  ASSUME NEW T \in SUBSET Nat, T # {}
  PROVE  \E x \in T : \A y \in T : x <= y
<1>1. IsWellFoundedOn(Before, Nat)
  BY NatLessThanWellFounded DEF OpToRel, Before
<1>2. PICK x \in T : \A y \in T : ~ (<<y, x>> \in Before)
  BY <1>1, WFMin
<1>3. \A y \in T : ~ (y < x)
  BY <1>2 DEF Before
<1>4. \A y \in T : x <= y
  BY <1>3
<1>. QED
  BY <1>4

(* find_first_of returns npos or the least position of a match.            *)
LEMMA FindFacts ==
  ASSUME NEW s, IsText(s), NEW S
  PROVE  \/ FindOf(s, S) = Npos /\ \A k \in 1 .. Len(s) : s[k] \notin S
         \/ /\ FindOf(s, S) \in 0 .. Len(s) - 1
            /\ s[FindOf(s, S) + 1] \in S
            /\ \A j \in 1 .. FindOf(s, S) : s[j] \notin S
<1>. DEFINE T == {k \in 1 .. Len(s) : s[k] \in S}
<1>1. CASE T = {}
  BY <1>1 DEF FindOf
<1>2. CASE T # {}
  <2>1. T \in SUBSET Nat
    BY DEF IsText
  <2>2. PICK x \in T : \A y \in T : x <= y
    BY <1>2, <2>1, LeastNumber
  <2>3. x \in 1 .. Len(s) /\ s[x] \in S /\ \A j \in 1 .. x - 1 : s[j] \notin S
    BY <2>2 DEF IsText
  <2>. DEFINE First == CHOOSE k \in 1 .. Len(s) :
                         s[k] \in S /\ \A j \in 1 .. k - 1 : s[j] \notin S
  <2>4. /\ First \in 1 .. Len(s) /\ s[First] \in S
        /\ \A j \in 1 .. First - 1 : s[j] \notin S
    BY <2>3
  <2>5. FindOf(s, S) = First - 1
    BY <1>2 DEF FindOf
  <2>6. First \in Nat
    BY <2>4
  <2>. HIDE DEF First
  <2>. QED
    BY <2>4, <2>5, <2>6 DEF IsText
<1>. QED
  BY <1>1, <1>2

(* substr within its text.                                                 *)
LEMMA SubStrFacts ==
  ASSUME NEW s, IsText(s), NEW pos \in 0 .. Len(s), NEW count \in Nat
  PROVE  /\ IsText(SubStr(s, pos, count))
         /\ Len(SubStr(s, pos, count)) =
              IF count < Len(s) - pos THEN count ELSE Len(s) - pos
         /\ \A k \in 1 .. Len(SubStr(s, pos, count)) :
              SubStr(s, pos, count)[k] = s[pos + k]
<1>. USE UriAssumption DEF UriAssumption
<1>. DEFINE end == IF count < Len(s) - pos THEN pos + count ELSE Len(s)
<1>1. SubStr(s, pos, count) = SubSeq(s, pos + 1, end)
  BY DEF SubStr
<1>2. end \in 0 .. Len(s) /\ Len(s) \in Nat /\ pos \in Nat
  BY DEF IsText
<1>3. SubSeq(s, pos + 1, end) \in Seq(Chars)
  BY <1>2 DEF IsText
<1>4. Len(SubSeq(s, pos + 1, end)) = end - pos
  BY <1>2 DEF IsText
<1>5. \A k \in 1 .. end - pos : SubSeq(s, pos + 1, end)[k] = s[pos + k]
  BY <1>2 DEF IsText
<1>. QED
  BY <1>1, <1>2, <1>3, <1>4, <1>5 DEF IsText

(* The first piece ends at the first delimiter or is all there is.         *)
LEMMA PieceFacts ==
  ASSUME NEW s, IsText(s), NEW c
  PROVE  /\ IsText(Piece(s, c)) /\ IsText(After(s, c))
         /\ Len(Piece(s, c)) <= Len(s)
         /\ \A k \in 1 .. Len(Piece(s, c)) : Piece(s, c)[k] = s[k] /\ s[k] # c
         /\ Len(Piece(s, c)) = Len(s) \/ s[Len(Piece(s, c)) + 1] = c
<1>. USE UriAssumption DEF UriAssumption
<1>1. Len(s) \in Nat
  BY DEF IsText
<1>2. ASSUME NEW count \in Nat
      PROVE  /\ IsText(SubStr(s, 0, count))
             /\ Len(SubStr(s, 0, count)) = IF count < Len(s) THEN count ELSE Len(s)
             /\ \A k \in 1 .. Len(SubStr(s, 0, count)) : SubStr(s, 0, count)[k] = s[k]
  <2>1. 0 \in 0 .. Len(s) /\ Len(s) - 0 = Len(s)
    BY <1>1
  <2>2. /\ IsText(SubStr(s, 0, count))
        /\ Len(SubStr(s, 0, count)) = IF count < Len(s) - 0 THEN count ELSE Len(s) - 0
        /\ \A k \in 1 .. Len(SubStr(s, 0, count)) : SubStr(s, 0, count)[k] = s[0 + k]
    BY <2>1, SubStrFacts
  <2>3. Len(SubStr(s, 0, count)) \in Nat
    BY <2>2 DEF IsText
  <2>. QED
    BY <2>1, <2>2, <2>3
<1>3. CASE Find(s, c) = Npos /\ \A k \in 1 .. Len(s) : s[k] # c
  <2>1. IsText(Piece(s, c)) /\ Len(Piece(s, c)) = Len(s)
    BY <1>1, <1>2, <1>3 DEF Piece, IsText
  <2>2. \A k \in 1 .. Len(s) : Piece(s, c)[k] = s[k]
    BY <1>1, <1>2, <1>3, <2>1 DEF Piece
  <2>3. IsText(After(s, c))
    BY <1>1, <1>3 DEF After, IsText
  <2>. QED
    BY <1>1, <1>3, <2>1, <2>2, <2>3
<1>4. CASE /\ Find(s, c) \in 0 .. Len(s) - 1 /\ s[Find(s, c) + 1] = c
           /\ \A j \in 1 .. Find(s, c) : s[j] # c
  <2>1. Find(s, c) \in Nat /\ Find(s, c) < Len(s) /\ Find(s, c) + 1 \in 0 .. Len(s)
    BY <1>1, <1>4
  <2>2. IsText(Piece(s, c)) /\ Len(Piece(s, c)) = Find(s, c)
    BY <1>1, <1>2, <2>1 DEF Piece
  <2>3. \A k \in 1 .. Find(s, c) : Piece(s, c)[k] = s[k]
    BY <1>1, <1>2, <2>1, <2>2 DEF Piece
  <2>4. IsText(SubStr(s, Find(s, c) + 1, Len(s)))
    BY <1>1, <2>1, SubStrFacts
  <2>5. IsText(After(s, c))
    BY <2>4 DEF After, IsText
  <2>. QED
    BY <1>1, <1>4, <2>1, <2>2, <2>3, <2>5
<1>. QED
  BY <1>3, <1>4, FindFacts DEF Find

(* Wrapped arithmetic is the usual one except for npos + 1 and 0 - 1.      *)
LEMMA WrapFacts ==
  /\ \A n \in Nat : n < Npos => Wrap(n + 1) = n + 1
  /\ Wrap(Npos + 1) = 0
  /\ \A n \in Nat : Minus1(n) = IF n = 0 THEN Npos ELSE n - 1
  BY UriAssumption DEF UriAssumption, Wrap, Minus1

(* The position behind a match, or behind npos, is a number.               *)
LEMMA BehindFind ==
  ASSUME NEW s, IsText(s), NEW c
  PROVE  Wrap(Find(s, c) + 1) \in Nat
<1>. USE UriAssumption DEF UriAssumption
<1>1. Len(s) \in Nat /\ Len(s) < Npos
  BY DEF IsText
<1>2. Find(s, c) = Npos \/ Find(s, c) \in 0 .. Len(s) - 1
  BY FindFacts DEF Find
<1>3. CASE Find(s, c) = Npos
  BY <1>3, WrapFacts
<1>4. CASE Find(s, c) \in 0 .. Len(s) - 1
  <2>1. Find(s, c) \in Nat /\ Find(s, c) < Npos
    BY <1>1, <1>4
  <2>2. Wrap(Find(s, c) + 1) = Find(s, c) + 1
    BY <2>1, WrapFacts
  <2>. QED
    BY <2>1, <2>2
<1>. QED
  BY <1>2, <1>3, <1>4

(* A text that contains c is cut at its first c in two, and only c is lost. *)
LEMMA CutFacts ==
  ASSUME NEW s, IsText(s), NEW c, Find(s, c) # Npos
  PROVE  LET cut == Find(s, c)
             left == SubStr(s, 0, cut)
             right == SubStr(s, Wrap(cut + 1), Minus1(Len(s)))
         IN  /\ Wrap(cut + 1) <= Len(s)
             /\ IsText(left) /\ IsText(right)
             /\ \A k \in 1 .. Len(left) : left[k] # c
             /\ left \o <<c>> \o right = s
<1>. USE UriAssumption DEF UriAssumption
<1>. DEFINE cut == Find(s, c)
            left == SubStr(s, 0, cut)
            right == SubStr(s, Wrap(cut + 1), Minus1(Len(s)))
            whole == left \o <<c>> \o right
<1>1. /\ cut \in 0 .. Len(s) - 1 /\ s[cut + 1] = c
      /\ \A j \in 1 .. cut : s[j] # c
  BY FindFacts DEF Find
<1>2. s \in Seq(Chars) /\ Len(s) \in Nat /\ Len(s) < Npos /\ c \in Chars
  BY <1>1 DEF IsText
<1>. HIDE DEF cut
<1>3. /\ cut \in Nat /\ cut < Len(s) /\ Wrap(cut + 1) = cut + 1
      /\ Minus1(Len(s)) = Len(s) - 1
  BY <1>1, <1>2, WrapFacts
<1>4. /\ IsText(left) /\ Len(left) = cut
      /\ \A k \in 1 .. cut : left[k] = s[k]
  <2>1. 0 \in 0 .. Len(s) /\ Len(s) - 0 = Len(s)
    BY <1>2
  <2>2. /\ IsText(left)
        /\ Len(left) = IF cut < Len(s) - 0 THEN cut ELSE Len(s) - 0
        /\ \A k \in 1 .. Len(left) : left[k] = s[0 + k]
    BY <1>3, <2>1, SubStrFacts
  <2>3. Len(left) = cut
    BY <1>3, <2>1, <2>2
  <2>. QED
    BY <1>3, <2>2, <2>3
<1>5. /\ IsText(right) /\ Len(right) = Len(s) - (cut + 1)
      /\ \A k \in 1 .. Len(right) : right[k] = s[cut + 1 + k]
  <2>1. cut + 1 \in 0 .. Len(s) /\ Len(s) - 1 \in Nat
    BY <1>2, <1>3
  <2>2. right = SubStr(s, cut + 1, Len(s) - 1)
    BY <1>3
  <2>3. /\ IsText(right)
        /\ Len(right) = IF Len(s) - 1 < Len(s) - (cut + 1)
                          THEN Len(s) - 1 ELSE Len(s) - (cut + 1)
        /\ \A k \in 1 .. Len(right) : right[k] = s[cut + 1 + k]
    <3>. DEFINE part == SubStr(s, cut + 1, Len(s) - 1)
    <3>1. /\ IsText(part)
          /\ Len(part) = IF Len(s) - 1 < Len(s) - (cut + 1)
                           THEN Len(s) - 1 ELSE Len(s) - (cut + 1)
          /\ \A k \in 1 .. Len(part) : part[k] = s[cut + 1 + k]
      BY <2>1, SubStrFacts
    <3>. HIDE DEF part, right
    <3>. QED
      BY <2>2, <3>1 DEF part
  <2>. QED
    BY <1>2, <1>3, <2>3
<1>. HIDE DEF left, right
<1>6. whole = s
  <2>1. /\ left \in Seq(Chars) /\ right \in Seq(Chars)
        /\ Len(left) = cut /\ Len(right) = Len(s) - (cut + 1)
    BY <1>4, <1>5 DEF IsText
  <2>2. left \o <<c>> \in Seq(Chars) /\ Len(left \o <<c>>) = cut + 1
    BY <1>2, <1>3, <2>1
  <2>3. whole \in Seq(Chars) /\ Len(whole) = Len(s)
    <3>1. /\ whole \in Seq(Chars)
          /\ Len(whole) = Len(left \o <<c>>) + Len(right)
      BY <2>1, <2>2, ConcatProperties
    <3>2. cut + 1 + (Len(s) - (cut + 1)) = Len(s)
      BY <1>2, <1>3
    <3>. HIDE DEF whole
    <3>. QED
      BY <2>1, <2>2, <3>1, <3>2
  <2>4. ASSUME NEW k \in 1 .. Len(s) PROVE whole[k] = s[k]
    <3>1. CASE k <= cut
      BY <1>2, <1>3, <1>4, <2>1, <2>2, <3>1
    <3>2. CASE k = cut + 1
      BY <1>1, <1>2, <1>3, <2>1, <2>2, <3>2
    <3>3. CASE k > cut + 1
      <4>1. k - (cut + 1) \in 1 .. Len(right)
        BY <1>2, <1>3, <2>1, <3>3
      <4>2. whole[k] = right[k - (cut + 1)]
        BY <1>2, <1>3, <2>1, <2>2, <3>3
      <4>3. right[k - (cut + 1)] = s[cut + 1 + (k - (cut + 1))]
        BY <1>5, <4>1
      <4>4. cut + 1 + (k - (cut + 1)) = k
        BY <1>2, <1>3
      <4>. QED
        BY <4>2, <4>3, <4>4
    <3>4. k <= cut \/ k = cut + 1 \/ k > cut + 1
      BY <1>2, <1>3
    <3>. QED
      BY <3>1, <3>2, <3>3, <3>4
  <2>5. \A k \in 1 .. Len(whole) : whole[k] = s[k]
    BY <2>3, <2>4
  <2>. HIDE DEF whole
  <2>. QED
    BY <1>2, <2>3, <2>5, SeqEqual
<1>7. Wrap(cut + 1) <= Len(s) /\ \A k \in 1 .. Len(left) : left[k] # c
  BY <1>1, <1>2, <1>3, <1>4
<1>. QED
  BY <1>4, <1>5, <1>6, <1>7 DEF left, right, cut

(* The key and the value of a pair, whether or not it has a '='.           *)
LEMMA PairFacts ==
  ASSUME IsText(rest)
  PROVE  /\ IsText(Pair) /\ IsText(PairKey) /\ IsText(PairVal)
         /\ Wrap(PairCut + 1) <= Len(Pair)
         /\ IsText(After(rest, "&"))
<1>. USE UriAssumption DEF UriAssumption
<1>1. IsText(Pair) /\ IsText(After(rest, "&"))
  BY PieceFacts DEF Pair
<1>2. CASE PairCut # Npos
  BY <1>1, <1>2, CutFacts DEF PairCut, PairKey, PairVal
<1>3. CASE PairCut = Npos
  <2>1. Wrap(PairCut + 1) = 0 /\ Len(Pair) \in Nat /\ Minus1(Len(Pair)) \in Nat
    <3>1. Wrap(PairCut + 1) = 0
      BY <1>3, WrapFacts
    <3>2. Len(Pair) \in Nat
      BY <1>1 DEF IsText
    <3>3. Minus1(Len(Pair)) = IF Len(Pair) = 0 THEN Npos ELSE Len(Pair) - 1
      BY <3>2, WrapFacts
    <3>. QED
      BY <3>1, <3>2, <3>3
  <2>2. 0 \in 0 .. Len(Pair) /\ PairCut \in Nat
    BY <1>3, <2>1
  <2>. QED
    BY <1>1, <2>1, <2>2, SubStrFacts DEF PairKey, PairVal
<1>. QED
  BY <1>1, <1>2, <1>3

(* A number without its leading zeros is a text again.                     *)
LEMMA NumberFacts ==
  ASSUME NEW s, IsText(s)
  PROVE  IsText(Number(s))
<1>. USE UriAssumption DEF UriAssumption
<1>. DEFINE start == FindOf(s, Chars \ {"0"})
<1>1. Len(s) \in Nat
  BY DEF IsText
<1>2. start = Npos \/ start \in 0 .. Len(s) - 1
  BY FindFacts
<1>. HIDE DEF start
<1>3. CASE start = Npos
  BY <1>1, <1>3 DEF Number, start, IsText
<1>4. CASE start # Npos
  <2>1. start \in 0 .. Len(s)
    BY <1>1, <1>2, <1>4
  <2>2. IsText(SubStr(s, start, Len(s)))
    BY <1>1, <2>1, SubStrFacts
  <2>. QED
    BY <1>4, <2>2 DEF Number, start
<1>. QED
  BY <1>3, <1>4

(* What the conversion yields is a value: numbers that are too large throw. *)
LEMMA ConvertFacts ==
  ASSUME NEW s, IsText(s), ~TooLarge(s)
  PROVE  Convert(s) \in Value
<1>. DEFINE text == IF IsNumber(s) THEN Number(s) ELSE s
<1>1. text \in Seq(Chars) /\ (IsNumber(s) => Len(text) <= MaxDigits)
  <2>1. Number(s) \in Seq(Chars) /\ Len(Number(s)) \in Nat
    BY NumberFacts DEF IsText
  <2>. QED
    BY <2>1, UriAssumption DEF UriAssumption, TooLarge, IsText
<1>2. IsNumber(s) \in BOOLEAN
  BY DEF IsNumber
<1>3. Convert(s) = [number |-> IsNumber(s), text |-> text]
  BY DEF Convert
<1>. HIDE DEF text
<1>. QED
  BY <1>1, <1>2, <1>3 DEF Value

(* insert keeps a map from texts to values one.                            *)
LEMMA InsertFacts ==
  ASSUME IsValueMap(values), NEW k \in Seq(Chars), NEW v \in Value
  PROVE  IsValueMap(Insert(k, v))
<1>. DEFINE D == DOMAIN values \cup {k}
            G == [j \in D |-> IF j = k THEN v ELSE values[j]]
<1>1. Insert(k, v) = G
  BY DEF Insert
<1>2. DOMAIN G = D
  OBVIOUS
<1>3. G = [j \in DOMAIN G |-> G[j]]
  BY <1>2
<1>4. \A j \in DOMAIN G : j \in Seq(Chars) /\ G[j] \in Value
  BY <1>2 DEF IsValueMap
<1>. HIDE DEF G
<1>. QED
  BY <1>1, <1>3, <1>4 DEF IsValueMap

-----------------------------------------------------------------------------
(* The inductive invariant: texts stay below npos, so that no position     *)
(* wraps around unnoticed.                                                 *)
UriInv == TypeOK /\ IsText(uri) /\ IsText(rest) /\ InBounds /\ SplitsLosslessly

LEMMA InitInv == Init => UriInv
<1>. SUFFICES ASSUME Init PROVE UriInv
  OBVIOUS
<1>1. path \in Seq(Chars) /\ Len(path) < Npos /\ (payload # NotJson => IsValueMap(payload))
  BY UriAssumption DEF Init, UriAssumption
<1>2. IsText(<<>>) /\ Npos \in Nat
  BY <1>1, UriAssumption DEF UriAssumption, IsText
<1>3. IsValueMap(values)
  <2>1. values = [k \in {} |-> Token]
    BY DEF Init
  <2>2. DOMAIN values = {}
    BY <2>1
  <2>3. values = [k \in DOMAIN values |-> values[k]]
    BY <2>1, <2>2
  <2>. QED
    BY <2>2, <2>3 DEF IsValueMap
<1>. QED
  BY <1>1, <1>2, <1>3
  DEF Init, UriInv, TypeOK, Running, InBounds, SplitsLosslessly, IsText

LEMMA SplitFacts ==
  ASSUME IsText(uri), CutPos # Npos,
         target' = SubStr(MainPart, 0, CutPos),
         id' = SubStr(MainPart, Wrap(CutPos + 1), Minus1(Len(MainPart))),
         uri' = uri
  PROVE  /\ IsText(target') /\ IsText(id')
         /\ SplitsLosslessly'
<1>1. /\ IsText(MainPart) /\ Len(MainPart) <= Len(uri)
      /\ \A k \in 1 .. Len(MainPart) : MainPart[k] = uri[k] /\ MainPart[k] # "?"
      /\ Len(MainPart) = Len(uri) \/ uri[Len(MainPart) + 1] = "?"
  BY PieceFacts DEF MainPart
<1>2. /\ IsText(target') /\ IsText(id')
      /\ \A k \in 1 .. Len(target') : target'[k] # "/"
      /\ target' \o <<"/">> \o id' = MainPart
  BY <1>1, CutFacts DEF CutPos
<1>3. SubSeq(uri, 1, Len(MainPart)) = MainPart
  <2>1. /\ uri \in Seq(Chars) /\ MainPart \in Seq(Chars)
        /\ Len(MainPart) \in Nat /\ Len(uri) \in Nat
    BY <1>1 DEF IsText
  <2>. DEFINE head == SubSeq(uri, 1, Len(MainPart))
  <2>2. /\ head \in Seq(Chars) /\ Len(head) = Len(MainPart)
        /\ \A k \in 1 .. Len(MainPart) : head[k] = uri[k]
    BY <1>1, <2>1
  <2>. HIDE DEF head
  <2>3. head = MainPart
    BY <1>1, <2>1, <2>2, SeqEqual
  <2>. QED
    BY <2>3 DEF head
<1>. QED
  BY <1>1, <1>2, <1>3 DEF SplitsLosslessly

LEMMA NextInv == UriInv /\ [Next]_vars => UriInv'
<1>. SUFFICES ASSUME UriInv, [Next]_vars PROVE UriInv'
  OBVIOUS
<1>. USE DEF UriInv
<1>1. CASE CheckPath
  BY <1>1 DEF CheckPath, input, TypeOK, Running, Ended, InBounds, SplitsLosslessly, IsText
<1>2. CASE CutPath
  <2>1. IsText(SubSeq(path, Len(Prefix) + 1, Len(path))) \/ ~HasPrefix(path)
    <3>1. CASE HasPrefix(path)
      <4>1. path \in Seq(Chars) /\ Len(path) < Npos /\ Len(Prefix) \in Nat
            /\ Len(path) \in Nat /\ Npos \in Nat
        BY UriAssumption DEF TypeOK, UriAssumption
      <4>2. Len(Prefix) <= Len(path)
        BY <3>1 DEF HasPrefix
      <4>3. /\ SubSeq(path, Len(Prefix) + 1, Len(path)) \in Seq(Chars)
            /\ Len(SubSeq(path, Len(Prefix) + 1, Len(path))) = Len(path) - Len(Prefix)
        BY <4>1, <4>2
      <4>. QED
        BY <4>1, <4>2, <4>3 DEF IsText
    <3>. QED
      BY <3>1
  <2>2. IsText(uri')
    BY <1>2, <2>1 DEF CutPath
  <2>. QED
    BY <1>2, <2>2 DEF CutPath, input, TypeOK, Running, Ended, InBounds,
       SplitsLosslessly, IsText
<1>3. CASE RejectUri
  BY <1>3 DEF RejectUri, input, TypeOK, Running, Ended, InBounds, SplitsLosslessly, IsText
<1>4. CASE SplitMainPart
  <2>1. IsText(MainPart) /\ IsText(Query)
    BY PieceFacts DEF MainPart, Query
  <2>2. Wrap(CutPos + 1) <= Len(MainPart) /\ CutPos # Npos
    BY <1>4, <2>1, CutFacts DEF SplitMainPart, CutPos
  <2>3. Wrap(CutPos + 1) \in Nat /\ Len(MainPart) \in Nat
    BY <2>1, BehindFind DEF CutPos, IsText
  <2>4. /\ pc' = "pairs" /\ target' = SubStr(MainPart, 0, CutPos)
        /\ id' = SubStr(MainPart, Wrap(CutPos + 1), Minus1(Len(MainPart)))
        /\ rest' = Query /\ values' = payload /\ uri' = uri
        /\ path' = path /\ payload' = payload /\ payload # NotJson
    BY <1>4, <2>2, <2>3 DEF SplitMainPart, input
  <2>5. IsText(target') /\ IsText(id') /\ SplitsLosslessly'
    BY <2>2, <2>4, SplitFacts
  <2>. QED
    BY <2>1, <2>4, <2>5 DEF TypeOK, Running, Ended, InBounds, IsText
<1>5. CASE NextPair
  <2>1. IsText(PairKey) /\ IsText(PairVal) /\ IsText(After(rest, "&"))
    BY PairFacts
  <2>2. Convert(PairVal) \in Value
    BY <1>5, <2>1, ConvertFacts DEF NextPair
  <2>3. IsValueMap(Insert(PairKey, Convert(PairVal)))
    BY <2>1, <2>2, InsertFacts DEF TypeOK, IsText
  <2>4. IsText(rest') /\ IsValueMap(values')
    BY <1>5, <2>1, <2>3 DEF NextPair
  <2>. QED
    BY <1>5, <2>4 DEF NextPair, input, TypeOK, Running, Ended, InBounds,
       SplitsLosslessly, IsText
<1>6. CASE PairThrows
  <2>1. ~ (Wrap(PairCut + 1) > Len(Pair))
    <3>1. Wrap(PairCut + 1) <= Len(Pair) /\ IsText(Pair)
      BY PairFacts
    <3>2. Wrap(PairCut + 1) \in Nat /\ Len(Pair) \in Nat
      BY <3>1, BehindFind DEF PairCut, IsText
    <3>. QED
      BY <3>1, <3>2
  <2>. QED
    BY <1>6, <2>1 DEF PairThrows, input, TypeOK, Running, Ended, InBounds,
       SplitsLosslessly, IsText
<1>7. CASE AddToken
  <2>1. IsValueMap(values')
    <3>1. IsValueMap(Insert(TokenKey, Token)) /\ IsValueMap(values)
      BY UriAssumption, InsertFacts DEF UriAssumption, TypeOK
    <3>. QED
      BY <1>7, <3>1 DEF AddToken
  <2>. QED
    BY <1>7, <2>1 DEF AddToken, input, TypeOK, Running, Ended, InBounds,
       SplitsLosslessly, IsText
<1>8. CASE UNCHANGED vars
  BY <1>8 DEF vars, TypeOK, InBounds, SplitsLosslessly, IsText, IsValueMap
<1>. QED
  BY <1>1, <1>2, <1>3, <1>4, <1>5, <1>6, <1>7, <1>8 DEF Next

LEMMA Invariance == Spec => []UriInv
<1>. QED
  BY InitInv, NextInv, PTL DEF Spec

(* Every state is well-typed; above all, every value of the message is one, *)
(* a number only when stoi could hold it.                                  *)
THEOREM TypeCorrect == Spec => []TypeOK
<1>1. UriInv => TypeOK
  BY DEF UriInv
<1>. QED
  BY <1>1, Invariance, PTL

(* No uri of any length makes the arithmetic on positions leave its text:  *)
(* substr throws out_of_range for none of them.                            *)
THEOREM NeverOutOfRange == Spec => []InBounds
<1>1. UriInv => InBounds
  BY DEF UriInv
<1>. QED
  BY <1>1, Invariance, PTL

(* Target, slash and id are exactly what precedes the query, for every uri. *)
THEOREM UriSplitsLosslessly == Spec => []SplitsLosslessly
<1>1. UriInv => SplitsLosslessly
  BY DEF UriInv
<1>. QED
  BY <1>1, Invariance, PTL
=============================================================================
