----------------------------- MODULE MCJobParser -----------------------------
(* Instances of JobParser for TLC. *)
EXTENDS JobParser, TLC

Bytes == {"C", "R", "S", "W", "L", "H", "B", "r", " ", "1", "2", "[", "(", ",", ")", "]",
          "#", "x", "\n"}

NL == <<"\n">>
Good ==
  {<<"C", "r", " ", "1", " ", "1", " ", "2">>,
   <<"R", "r", " ", "1", " ", "[", "(", "1", ",", "2", ")", "]">>,
   <<"R", "r", " ", "1", " ", "[", "(", "1", ",", "1", ")", " ", "(", "2", ",", "1", ")", "]">>,
   <<"R", "r", " ", "1", " ", "[", "(", "1", ",", "1", ")", " ", "(", "2", ",", "1", ")",
     " ", "(", "1", ",", "2", ")", "]">>,
   <<"S", "r", " ", "1">>,
   <<"W", "r", " ", "2">>, <<"W", "r", " ", "2", " ", "1">>,
   <<"L", "r">>, <<"H", "r">>, <<"B", "r">>, <<"#", "x">>, <<>>}

\* Every line with one byte more, less or different.
Near(line) ==
  {InsertAt(line, i, b) : i \in 1 .. Len(line) + 1, b \in Bytes}
    \cup {ReplaceAt(line, i, b) : i \in DOMAIN line, b \in Bytes}
    \cup {RemoveAt(line, i) : i \in DOMAIN line}
    \cup {SubSeq(line, 1, i) : i \in DOMAIN line}

Broken == UNION {Near(l) : l \in Good}
Follow == {<<"S", "r", " ", "1">>, <<"R", "r", " ", "1", " ", "[", "(", "1", ",", "2", ")", "]">>}

\* A line with one error between two that have none, and the same line at the
\* end of the file, with and without its newline.
TheFiles ==
  UNION {{l \o NL \o n \o NL, n \o NL \o l, n \o NL \o l \o NL, l \o NL \o NL \o n \o NL}
         : l \in Broken, n \in Follow}
=============================================================================
