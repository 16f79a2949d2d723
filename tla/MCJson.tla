------------------------------- MODULE MCJson -------------------------------
(* Every text of up to four brackets, separators, quotes and digits, texts *)
(* for what needs more characters, and the prints of values of every type. *)
EXTENDS JsonTokener

Brackets == BoundedSeq({"{", "}", "[", "]", ",", ":", "\"", "1", NUL}, 4)

Chosen == {
    <<"\"", "\\", "u", "High", "\\", "u", "Low", "\"", NUL>>,
    <<"\"", "\\", "u", "High", "\\", "u", "Ctl", "\"", NUL>>,
    <<"\"", "\\", "u", "High", "\\", "n", "\"", NUL>>,
    <<"\"", "\\", "u", "Low", "z", "\"", NUL>>,
    <<"\"", "\\", "u", "z", "\"", NUL>>,
    <<"[", "-", "I", "y", "]">>,
    <<"[", "t", "r", ",", "-", "I", "y", "]">>,
    <<"-", "1", "I", NUL>>, <<"[", "-", "1", "0", "I", "y", "]">>, <<"1", "-", "1", "I", NUL>>,
    <<"[", "I", "y", ",", "n", "N", "]", " ">>,
    <<"{", "\"", "z", "\"", ":", "1", ",", "'", "z", "'", ":", "n", "l", "}">>,
    <<"{", "\"", "\\", "n", "\"", ":", "f", "s", ",", "}">>,
    <<"[", "1", "/", "*", "z", "*", "/", ",", "]">>,
    <<"[", "/", "*", "*", "*", "/", "]">>,
    <<"/", "/", "z", "\n", "1", " ">>,
    <<"[", "\"", "z", "\"", "/", "*", NUL>>,
    <<"0", "0", "1", "-", " ">>, <<"-", ".", "1", NUL>>, <<"-", "1", " ", "1">>,
    <<"[", "[", "[", "1", "]", "]", "]">>}

MCTexts == Brackets \cup Chosen

MCLater == {
    <<"-", "I", "y", NUL>>, <<"[", "1", "]">>,
    <<"{", "\"", "z", "\"", ":", "t", "r", "}">>,
    <<"'", "\\", "u", "Ctl", "'">>}

Leaves ==
    {Null, Boolean(TRUE), Boolean(FALSE), Integer(<<"1">>), Integer(<<"-", "1", "0">>),
     Double(<<"1", ".", "1">>), Double(json_nan_str), Double(json_inf_str),
     Double(<<"-">> \o json_inf_str),
     String(<<>>), String(<<"z", "\"", "\n">>), String(<<"\\", "/", "ctl">>), String(<<"cp">>)}
Small  == {Null, Integer(<<"1">>), Double(<<"-">> \o json_inf_str), String(<<"ctl">>)}
Flat   == {Array(s) : s \in BoundedSeq(Small, 2)}
          \cup {Object(<<<<<<"z">>, v>>, <<<<"\"">>, w>>>>) : v \in Small, w \in Small}
          \cup {Object(<<>>)}
Nested == {Array(<<v>>) : v \in Flat} \cup {Object(<<<<<<>>, v>>>>) : v \in Flat}
Deep   == {Array(<<Array(<<Object(<<<<<<"z">>, v>>>>)>>)>>) : v \in {Null, Array(<<>>)}}

MCPrinted == [value : Leaves \cup {Array(<<v>>) : v \in Leaves} \cup Flat \cup Nested \cup Deep,
              flags : Flags]
=============================================================================
