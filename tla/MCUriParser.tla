------------------------------ MODULE MCUriParser ------------------------------
(* Small instances of UriParser for TLC: every path of up to three         *)
(* characters, every one that continues the prefix by up to four, and      *)
(* queries of up to six.                                                   *)
EXTENDS UriParser, TLC
CONSTANTS NoJson

AllChars == {"/", "?", "&", "=", ".", "0", "1", "c", "t"}
UriChars == {"/", "?", "&", "=", "1", "t"}
QueryChars == {"&", "=", "0", "1", "t"}
UpTo(S, n) == UNION {[1 .. k -> S] : k \in 0 .. n}

ControlPrefix == <<"/", "c", "/">>
T == <<"t">>
AnyPaths ==
  UpTo(AllChars, 3) \cup {ControlPrefix \o s : s \in UpTo(UriChars, 4)} \cup
  {ControlPrefix \o <<"/", "?">> \o s : s \in UpTo(QueryChars, 6)}
SomePaths == {ControlPrefix \o <<"/", "?">> \o s : s \in UpTo({"&", "=", "t", "1"}, 3)}

Text(s) == [number |-> FALSE, text |-> s]
JwtToken == Text(<<"c">>)
Bodies == {NoJson, [k \in {} |-> JwtToken],
           (<<"1">> :> Text(<<"0">>)) @@ (<<"t", "t">> :> Text(<<"/">>))}
OneBody == {[k \in {} |-> JwtToken]}
=============================================================================
