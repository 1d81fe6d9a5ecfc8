------------------------------- MODULE UriParser -------------------------------
(***************************************************************************)
(* From the path of a http-request to the target, the endpoint and the     *)
(* values of the message for the backend: checkPath, cutPath and parseUri. *)
(* A text is a sequence of characters; positions count from 0 as those of  *)
(* std::string do, and arithmetic on them wraps around behind npos.        *)
(***************************************************************************)
EXTENDS Naturals, Sequences

CONSTANTS
  Chars,       \* characters of a path
  Digits,      \* those matched by INT_VALUE_REGEX
  Prefix,      \* "/control/"
  TokenKey,    \* "token"
  Npos,        \* std::string::npos, the largest size_t
  MaxDigits,   \* digits a number may have to fit into an int
  Paths,       \* paths of requests
  Payloads,    \* values defined by the body of a request
  NotJson,     \* a body that is no json
  Token        \* the value of X-Auth-Token

\* What stoi returns fits into an int.
Value == {v \in [number : BOOLEAN, text : Seq(Chars)] :
            v.number => Len(v.text) <= MaxDigits}

IsValueMap(f) ==
  /\ f = [k \in DOMAIN f |-> f[k]]
  /\ \A k \in DOMAIN f : k \in Seq(Chars) /\ f[k] \in Value

ASSUME UriAssumption ==
  /\ Digits \subseteq Chars
  /\ Prefix \in Seq(Chars) /\ TokenKey \in Seq(Chars)
  /\ Npos \in Nat /\ MaxDigits \in Nat
  /\ \A p \in Paths : p \in Seq(Chars) /\ Len(p) < Npos
  /\ \A f \in Payloads : f # NotJson => IsValueMap(f)
  /\ Token \in Value

VARIABLES pc, path, uri, payload, rest, target, id, values
vars == <<pc, path, uri, payload, rest, target, id, values>>
input == <<path, payload>>

Running == {"checkPath", "cutPath", "split", "pairs"}
\* outOfRange and overflow are exceptions, of substr and of std::stoi.
Ended == {"badPath", "notFound", "invalid", "outOfRange", "overflow", "ok"}

-----------------------------------------------------------------------------
(* Operations of std::string and of splitStringByDelimiter.                *)

FindLastOf(s, S) ==
  IF \E k \in 1 .. Len(s) : s[k] \in S
    THEN (CHOOSE k \in 1 .. Len(s) : s[k] \in S /\ \A j \in k + 1 .. Len(s) : s[j] \notin S) - 1
    ELSE Npos

FindOf(s, S) ==
  IF \E k \in 1 .. Len(s) : s[k] \in S
    THEN (CHOOSE k \in 1 .. Len(s) : s[k] \in S /\ \A j \in 1 .. k - 1 : s[j] \notin S) - 1
    ELSE Npos
Find(s, c) == FindOf(s, {c})

\* n is less than two times 2^w.
Wrap(n) == IF n <= Npos THEN n ELSE n - (Npos + 1)
Minus1(n) == Wrap(n + Npos)

(* Defined for pos <= Len(s) only; count is cut off at the end of s.       *)
SubStr(s, pos, count) ==
  SubSeq(s, pos + 1, IF count < Len(s) - pos THEN pos + count ELSE Len(s))

\* The first piece of s and what follows its delimiter; std::getline.
Piece(s, c) == SubStr(s, 0, Find(s, c))
After(s, c) == IF Find(s, c) = Npos THEN <<>> ELSE SubStr(s, Find(s, c) + 1, Len(s))

-----------------------------------------------------------------------------
(* A number stands for its digits without leading zeros.                   *)
Number(text) ==
  LET start == FindOf(text, Chars \ {"0"})
  IN  IF start = Npos THEN <<>> ELSE SubStr(text, start, Len(text))

IsNumber(text) == text # <<>> /\ \A k \in 1 .. Len(text) : text[k] \in Digits
NeverTooLarge(text) == FALSE
TooLarge(text) == IsNumber(text) /\ Len(Number(text)) > MaxDigits
Convert(text) ==
  [number |-> IsNumber(text), text |-> IF IsNumber(text) THEN Number(text) ELSE text]

InsertUnforced(key, value) ==
  IF key \in DOMAIN values THEN values
    ELSE [k \in DOMAIN values \cup {key} |-> IF k = key THEN value ELSE values[k]]

\* JsonItem::insert with force, which replaces an older value.
Insert(key, value) ==
  [k \in DOMAIN values \cup {key} |-> IF k = key THEN value ELSE values[k]]

Init ==
  /\ path \in Paths /\ payload \in Payloads
  /\ pc = "checkPath"
  /\ uri = <<>> /\ rest = <<>> /\ target = <<>> /\ id = <<>>
  /\ values = [k \in {} |-> Token]

HasDoubleDot(s) == \E k \in 1 .. Len(s) - 1 : s[k] = "." /\ s[k + 1] = "."

CheckPath ==
  /\ pc = "checkPath"
  /\ pc' = IF path = <<>> \/ path[1] # "/" \/ HasDoubleDot(path)
             THEN "badPath" ELSE "cutPath"
  /\ UNCHANGED <<input, uri, rest, target, id, values>>

HasPrefix(s) == Len(Prefix) <= Len(s) /\ SubSeq(s, 1, Len(Prefix)) = Prefix

CutPath ==
  /\ pc = "cutPath"
  /\ pc' = IF HasPrefix(path) THEN "split" ELSE "notFound"
  /\ uri' = IF HasPrefix(path) THEN SubSeq(path, Len(Prefix) + 1, Len(path)) ELSE uri
  /\ UNCHANGED <<input, rest, target, id, values>>

-----------------------------------------------------------------------------
(* parseUri                                                                *)

MainPart == Piece(uri, "?")
Query == Piece(After(uri, "?"), "?")
CutPosFromBack == FindLastOf(MainPart, {"/"})
CutPosOfUri == Find(uri, "/")
CutPos == Find(MainPart, "/")

RejectUri ==
  /\ pc = "split"
  /\ uri = <<>> \/ CutPos = Npos \/ payload = NotJson
  /\ pc' = "invalid"
  /\ UNCHANGED <<input, uri, rest, target, id, values>>

SplitMainPart ==
  /\ pc = "split"
  /\ uri # <<>> /\ CutPos # Npos /\ payload # NotJson
  /\ target' = SubStr(MainPart, 0, CutPos)
  /\ IF Wrap(CutPos + 1) > Len(MainPart)
       THEN pc' = "outOfRange" /\ UNCHANGED <<id, rest, values>>
       ELSE /\ pc' = "pairs"
            /\ id' = SubStr(MainPart, Wrap(CutPos + 1), Minus1(Len(MainPart)))
            /\ rest' = Query
            /\ values' = payload
  /\ UNCHANGED <<input, uri>>

Pair == Piece(rest, "&")
PairCut == Find(Pair, "=")
PairKey == SubStr(Pair, 0, PairCut)
PairVal == SubStr(Pair, Wrap(PairCut + 1), Minus1(Len(Pair)))

NextPairUnforced ==
  /\ pc = "pairs" /\ rest # <<>>
  /\ Wrap(PairCut + 1) <= Len(Pair) /\ ~TooLarge(PairVal)
  /\ values' = InsertUnforced(PairKey, Convert(PairVal))
  /\ rest' = After(rest, "&")
  /\ UNCHANGED <<pc, input, uri, target, id>>

(* One round of the loop over the pairs.                                   *)
NextPair ==
  /\ pc = "pairs" /\ rest # <<>>
  /\ Wrap(PairCut + 1) <= Len(Pair) /\ ~TooLarge(PairVal)
  /\ values' = Insert(PairKey, Convert(PairVal))
  /\ rest' = After(rest, "&")
  /\ UNCHANGED <<pc, input, uri, target, id>>

PairThrows ==
  /\ pc = "pairs" /\ rest # <<>>
  /\ Wrap(PairCut + 1) > Len(Pair) \/ TooLarge(PairVal)
  /\ pc' = IF Wrap(PairCut + 1) > Len(Pair) THEN "outOfRange" ELSE "overflow"
  /\ UNCHANGED <<input, uri, rest, target, id, values>>

(* The token is inserted without force: the library decides whether it     *)
(* replaces a value of the same name.                                      *)
AddToken ==
  /\ pc = "pairs" /\ rest = <<>>
  /\ pc' = "ok"
  /\ \/ values' = Insert(TokenKey, Token)
     \/ TokenKey \in DOMAIN values /\ UNCHANGED values
  /\ UNCHANGED <<input, uri, rest, target, id>>

Next ==
  \/ CheckPath \/ CutPath \/ RejectUri \/ SplitMainPart
  \/ NextPair \/ PairThrows \/ AddToken

Spec == Init /\ [][Next]_vars

-----------------------------------------------------------------------------
TypeOK ==
  /\ pc \in Running \cup Ended
  /\ path \in Seq(Chars) /\ Len(path) < Npos
  /\ payload # NotJson => IsValueMap(payload)
  /\ uri \in Seq(Chars) /\ rest \in Seq(Chars)
  /\ target \in Seq(Chars) /\ id \in Seq(Chars)
  /\ IsValueMap(values)

(* The unchecked arithmetic on positions, npos + 1 and size - 1 included,  *)
(* never leads substr out of its text.                                     *)
InBounds == pc # "outOfRange"

(* Target and id are the two halves of what precedes the query, cut at its *)
(* first slash: nothing is lost, whatever the halves contain.              *)
SplitsLosslessly ==
  pc \in {"pairs", "ok"} =>
    LET main == target \o <<"/">> \o id
    IN  /\ \A k \in 1 .. Len(target) : target[k] # "/"
        /\ \A k \in 1 .. Len(main) : main[k] # "?"
        /\ Len(main) <= Len(uri) /\ SubSeq(uri, 1, Len(main)) = main
        /\ Len(main) = Len(uri) \/ uri[Len(main) + 1] = "?"

(* The pairs of a query q: first and last position, and the position where *)
(* the key ends.  A pair between two delimiters may be empty.              *)
Pairs(q) ==
  {p \in (1 .. Len(q)) \X (0 .. Len(q)) \X (1 .. Len(q) + 1) :
     LET a == p[1] b == p[2] m == p[3]
     IN  /\ a = 1 \/ q[a - 1] = "&"
         /\ b >= a - 1 /\ (b = Len(q) \/ q[b + 1] = "&")
         /\ m \in a .. b + 1 /\ (m = b + 1 \/ q[m] = "=")
         /\ \A k \in a .. b : q[k] # "&"
         /\ \A k \in a .. m - 1 : q[k] # "="}
KeyOf(q, p) == SubSeq(q, p[1], p[3] - 1)
TextOf(q, p) == SubSeq(q, p[3] + 1, p[2])
HasValue(p) == p[3] <= p[2]

IsLast(q, D, p) == \A r \in D : KeyOf(q, r) = KeyOf(q, p) => r[1] <= p[1]

(* What a pair stands for: the text behind its '=', or, if it has none,    *)
(* its own text but for the last character.                                *)
WrittenText(q, p) ==
  IF HasValue(p) THEN TextOf(q, p) ELSE SubSeq(KeyOf(q, p), 1, Len(KeyOf(q, p)) - 1)

(* The pairs D of query q and the body give value v to key k.              *)
Gives(q, D, k, v) ==
  LET keys == {KeyOf(q, p) : p \in D}
  IN  /\ k \in DOMAIN payload \cup keys
      /\ k \notin keys => v = payload[k]
      /\ \A p \in D :
           KeyOf(q, p) = k /\ IsLast(q, D, p) => v = Convert(WrittenText(q, p))

(* The message holds these values and no others: of several pairs with one *)
(* key the last one counts, a pair counts more than the body, and the body *)
(* keeps what no pair names.  Only under the name of the token there may   *)
(* be either the token or what the pairs and the body gave to that name.   *)
ValuesAsWritten ==
  pc = "ok" =>
    /\ DOMAIN values =
         DOMAIN payload \cup {KeyOf(Query, p) : p \in Pairs(Query)} \cup {TokenKey}
    /\ \A k \in DOMAIN values :
         \/ Gives(Query, Pairs(Query), k, values[k])
         \/ k = TokenKey /\ values[k] = Token

(* Every value of a key of the query is text that stands behind a '=' of   *)
(* the query: a pair without '=' gives no value.                           *)
ValuesComeFromUri ==
  pc = "ok" =>
    \A k \in {KeyOf(Query, p) : p \in Pairs(Query)} \ {TokenKey} :
      values[k].text # <<>> =>
        \E p \in Pairs(Query) : HasValue(p) /\ values[k] = Convert(TextOf(Query, p))
=============================================================================
