----------------------------- MODULE JsonObject -----------------------------
(***************************************************************************)
(* Values of json-c and how json_object.c prints them.                     *)
(*                                                                         *)
(* A value is a pair of its type and its content: a C string is a sequence *)
(* of characters, an array a sequence of values, an object a sequence of   *)
(* <<key, value>> pairs in the order in which lh_table keeps them.  Each   *)
(* word is two characters long, and the four digits of a \u escape are one *)
(* character, named for what they stand for.                               *)
(***************************************************************************)
EXTENDS Integers, Sequences, SequencesExt

(* The words: true, false, null, Infinity, NaN. *)
json_true_str  == <<"t", "r">>
json_false_str == <<"f", "s">>
json_null_str  == <<"n", "l">>
json_inf_str   == <<"I", "y">>
json_nan_str   == <<"n", "N">>

Null        == <<"null", <<>>>>
Boolean(b)  == <<"boolean", IF b THEN json_true_str ELSE json_false_str>>
Integer(digits) == <<"int", digits>>
Double(txt) == <<"double", txt>>   \* finite: its text; NaN and infinities: the word
String(s)   == <<"string", s>>
Array(vs)   == <<"array", vs>>
Object(kvs) == <<"object", kvs>>

(* json_object_object_add: a key that is there keeps its place and gets    *)
(* the new value, another one goes to the end. *)
json_object_object_add(obj, key, val) ==
    LET pairs == obj[2]
    IN  IF \E i \in DOMAIN pairs : pairs[i][1] = key
        THEN Object([i \in DOMAIN pairs |->
                        IF pairs[i][1] = key THEN <<key, val>> ELSE pairs[i]])
        ELSE Object(Append(pairs, <<key, val>>))

json_object_array_add(arr, val) == Array(Append(arr[2], val))

(***************************************************************************)
(* Printing                                                                *)
(***************************************************************************)

Flags == {"PLAIN", "SPACED", "PRETTY"}

(* What a character of a string becomes: the ones that have one get their  *)
(* short escape, other control characters a \u escape.  "Ctl" are the      *)
(* digits of the control character "ctl". *)
Escape(c) ==
    CASE c = "\n" -> <<"\\", "n">>
      [] c \in {"\"", "\\", "/"} -> <<"\\", c>>
      [] c = "ctl" -> <<"\\", "u", "Ctl">>
      [] OTHER -> <<c>>

json_escape_str(s) == FlattenSeq([i \in DOMAIN s |-> Escape(s[i])])

Quoted(s) == <<"\"">> \o json_escape_str(s) \o <<"\"">>
Only(flag, flags, txt) == IF flag = flags THEN txt ELSE <<>>
indent(level, flags) == Only("PRETTY", flags, [i \in 1 .. 2 * level |-> " "])

(* The items of an object or an array between its brackets. *)
Enclosed(open, items, close, level, flags) ==
    LET Item(i) ==
            (IF i > 1 THEN <<",">> \o Only("PRETTY", flags, <<"\n">>) ELSE <<>>)
            \o Only("SPACED", flags, <<" ">>) \o indent(level + 1, flags) \o items[i]
    IN  <<open>> \o Only("PRETTY", flags, <<"\n">>)
        \o FlattenSeq([i \in DOMAIN items |-> Item(i)])
        \o Only("PRETTY", flags, IF items # <<>> THEN <<"\n">> ELSE <<>>)
        \o indent(level, flags) \o Only("SPACED", flags, <<" ">>) \o <<close>>

RECURSIVE ToJsonString(_, _, _)
ObjectToString(v, level, flags) ==
    LET Pair(kv) == Quoted(kv[1]) \o <<":">> \o Only("SPACED", flags, <<" ">>)
                    \o ToJsonString(kv[2], level + 1, flags)
    IN  Enclosed("{", [i \in DOMAIN v[2] |-> Pair(v[2][i])], "}", level, flags)

ArrayToString(v, level, flags) ==
    Enclosed("[", [i \in DOMAIN v[2] |-> ToJsonString(v[2][i], level + 1, flags)], "]", level, flags)

(* _to_json_string of each type. *)
ToJsonString(v, level, flags) ==
    CASE v[1] = "null" -> json_null_str
      [] v[1] \in {"boolean", "int", "double"} -> v[2]
      [] v[1] = "string" -> Quoted(v[2])
      [] v[1] = "array"  -> ArrayToString(v, level, flags)
      [] v[1] = "object" -> ObjectToString(v, level, flags)

json_object_to_json_string_ext(v, flags) == ToJsonString(v, 0, flags)
=============================================================================
