---------------------------- MODULE JsonTokener ----------------------------
(***************************************************************************)
(* The tokener of json-c: json_tokener_parse_ex over a text that comes in  *)
(* pieces, json_tokener_reset, and a caller that goes on as json_tokener.h *)
(* says: another piece after `continue', a reset after an error or at any  *)
(* time, the rest of the text or another one after a value.                *)
(*                                                                         *)
(* A call is one action.  What it does is the function Run, one operator   *)
(* per state of the switch, applied to a machine: the tokener and the      *)
(* locals of the call.                                                     *)
(***************************************************************************)
EXTENDS JsonObject, FiniteSets

CONSTANTS
    Texts,      \* what a caller may begin with
    Later,      \* what it may give a tokener that has been used
    Printed,    \* [value, flags] pairs: values whose printed text is parsed, too
    MaxTexts,   \* bound: texts one tokener is given
    max_depth   \* of json_tokener_new_ex

ASSUME ConstantsOK == MaxTexts \in Nat \ {0} /\ max_depth \in Nat \ {0}

VARIABLES
    tok,      \* struct json_tokener
    value,    \* what the last call returned
    text,     \* the text being given
    given,    \* how much of it was
    texts,    \* texts so far
    source,   \* history: the pair of Printed the text is the print of, if it is one
    delicate  \* history: the text was cut, or the tokener used, where parse_ex depends on it

vars == <<tok, value, text, given, texts, source, delicate>>

(***************************************************************************)
(* The tokener                                                             *)
(***************************************************************************)

NUL        == "NUL"
Space      == {" ", "\n"}
Digits     == {"0", "1"}
json_number_chars == Digits \cup {"-", "."}
json_hex_chars    == {"High", "Low", "Ctl"}   \* four digits each

Level == [state |-> "eatws", saved |-> "start", current |-> Null, name |-> <<>>]

(* json_tokener_new_ex and json_tokener_set_flags. *)
json_tokener_new(strict) ==
    [stack |-> <<Level>>, pb |-> <<>>, st_pos |-> 0, quote |-> NUL, is_double |-> FALSE,
     err |-> "success", strict |-> strict]

json_tokener_reset(t) == [t EXCEPT !.stack = <<Level>>, !.err = "success"]

(* Seeded fault: how far a word has come is kept in a local. *)
MachineForgetting(t) ==
    [tok |-> [t EXCEPT !.err = "success", !.st_pos = 0], i |-> 0, c |-> "\\1", len |-> 0,
     high |-> FALSE, obj |-> Null, out |-> FALSE]

(* A machine: the character c at offset i of the piece, and whether the    *)
(* call is over.  len is case_len, high says got_hi_surrogate. *)
Machine(t) ==
    [tok |-> [t EXCEPT !.err = "success"], i |-> 0, c |-> "\\1", len |-> 0, high |-> FALSE,
     obj |-> Null, out |-> FALSE]

Top(m)         == Last(m.tok.stack)
Depth(m)       == Len(m.tok.stack) - 1
Set(m, f, x)   == [m EXCEPT !.tok.stack[Len(m.tok.stack)][f] = x]
Go(m, s)       == Set(m, "state", s)
Skip(m, s)     == Set(Go(m, "eatws"), "saved", s)   \* to s after white space
Keep(m, c)     == [m EXCEPT !.tok.pb = Append(@, c)]
Begin(m, s)    == [Go(m, s) EXCEPT !.tok.pb = <<>>]
Fail(m, error) == [m EXCEPT !.tok.err = error, !.out = TRUE]
Advance(m)     == [m EXCEPT !.i = @ + 1, !.out = (m.c = NUL)]
Value(m, v)    == Skip(Set(m, "current", v), "finish")

(* Behind a sign, if there is one. *)
Unsigned(buf) == IF Head(buf) = "-" THEN Tail(buf) ELSE buf

(* strncmp of a word and what has been read of it. *)
Matches(word, buf, st_pos) ==
    LET size == IF st_pos + 1 < Len(word) THEN st_pos + 1 ELSE Len(word)
    IN  size <= Len(buf) /\ SubSeq(buf, 1, size) = SubSeq(word, 1, size)

(* One more character of one of the words, a function from words to values: *)
(* the value is there when the character behind the word is.  It is read   *)
(* again. *)
Word(m, words, error) ==
    LET kept   == Keep(m, m.c)
        buf    == Unsigned(kept.tok.pb)   \* only Infinity comes with a sign
        fits   == {w \in DOMAIN words : Matches(w, buf, m.tok.st_pos)}
        whole  == {w \in fits : m.tok.st_pos = Len(w)}
    IN  IF fits = {} THEN Fail(kept, error)
        ELSE IF whole # {} THEN Value(kept, words[CHOOSE w \in whole : TRUE])
        ELSE Advance([kept EXCEPT !.tok.st_pos = @ + 1])

(***************************************************************************)
(* The states                                                              *)
(***************************************************************************)

Eatws(m) ==
    CASE m.c \in Space -> Advance(m)
      [] m.c = "/" /\ ~m.tok.strict -> Advance(Begin(m, "comment_start"))
      [] OTHER -> Go(m, Top(m).saved)

Start(m) ==
    LET Letter(s) == [Begin(m, s) EXCEPT !.tok.st_pos = 0]
    IN  CASE m.c = "{" -> Advance(Skip(Set(m, "current", Object(<<>>)), "object_field_start"))
          [] m.c = "[" -> Advance(Skip(Set(m, "current", Array(<<>>)), "array"))
          [] m.c = "I" -> Letter("inf")
          [] m.c = "n" -> Letter("null")
          [] m.c \in {"t", "f"} -> Letter("boolean")
          [] m.c = "\"" \/ (m.c = "'" /\ ~m.tok.strict) ->
                 Advance([Begin(m, "string") EXCEPT !.tok.quote = m.c])
          [] m.c \in Digits \cup {"-"} -> [Begin(m, "number") EXCEPT !.tok.is_double = FALSE]
          [] OTHER -> Fail(m, "parse_unexpected")

(* The value goes to the level above, as obj. *)
Finish(m) ==
    IF Depth(m) = 0 THEN [m EXCEPT !.out = TRUE]
    ELSE [m EXCEPT !.obj = Top(m).current, !.tok.stack = Front(@)]

Inf(m) ==
    LET pb == Keep(m, m.c).tok.pb
    IN  Word(m, [w \in {json_inf_str} |->
                    Double(IF pb[1] = "-" THEN <<"-">> \o w ELSE w)], "parse_unexpected")

NullOrNaN(m) ==
    Word(m, [w \in {json_null_str, json_nan_str} |->
                IF w = json_null_str THEN Null ELSE Double(w)], "parse_null")

BooleanWord(m) ==
    Word(m, [w \in {json_true_str, json_false_str} |-> Boolean(w = json_true_str)],
         "parse_boolean")

CommentStart(m) ==
    CASE m.c = "*" -> Advance(Go(m, "comment"))
      [] m.c = "/" -> Advance(Go(m, "comment_eol"))
      [] OTHER -> Fail(m, "parse_comment")

Comment(m)    == Advance(IF m.c = "*" THEN Go(m, "comment_end") ELSE m)
CommentEol(m) == Advance(IF m.c = "\n" THEN Go(m, "eatws") ELSE m)
CommentEnd(m) == Advance(Go(m, IF m.c = "/" THEN "eatws" ELSE "comment"))

(* A string or a name, up to its quote. *)
Quote(m, self, Closed(_)) ==
    Advance(CASE m.c = m.tok.quote -> Closed(m)
              [] m.c = "\\" -> Go(Set(m, "saved", self), "string_escape")
              [] OTHER -> Keep(m, m.c))

StringState(m) == Quote(m, "string", LAMBDA n : Value(n, String(n.tok.pb)))
ObjectField(m) ==
    Quote(m, "object_field", LAMBDA n : Skip(Set(n, "name", n.tok.pb), "object_field_end"))

(* Seeded fault: the escape of a name goes on as a string. *)
StringEscapeToString(m) ==
    LET Back(c) == Advance(Go(Keep(m, c), "string"))
    IN  CASE m.c \in {"\"", "\\", "/"} -> Back(m.c)
          [] m.c = "n" -> Back("\n")
          [] m.c = "u" -> Advance([Go(m, "escape_unicode") EXCEPT !.tok.st_pos = 0])
          [] OTHER -> Fail(m, "parse_string")

StringEscape(m) ==
    LET Back(c) == Advance(Go(Keep(m, c), Top(m).saved))
    IN  CASE m.c \in {"\"", "\\", "/"} -> Back(m.c)
          [] m.c = "n" -> Back("\n")
          [] m.c = "u" -> Advance([Go(m, "escape_unicode") EXCEPT !.tok.st_pos = 0])
          [] OTHER -> Fail(m, "parse_string")

(* The four digits of an escape.  A high surrogate waits for the escape    *)
(* behind it, in a local: only if `\u' is in the same piece, and if the    *)
(* piece ends there with st_pos left at 4, from where it never comes to 4  *)
(* again.  "rep" is the replacement character, "cp" the character a pair   *)
(* stands for. *)
EscapeUnicode(m, piece) ==
    LET four == [m EXCEPT !.tok.st_pos = @ + 4]
        n    == IF m.high /\ m.c # "Low" THEN Keep(four, "rep") ELSE four
        Back(c) == Advance([Go(Keep(n, c), Top(m).saved) EXCEPT !.high = FALSE])
        more == m.i + 3 <= Len(piece) /\ piece[m.i + 2] = "\\" /\ piece[m.i + 3] = "u"
        next == [n EXCEPT !.i = @ + 3, !.high = TRUE]
    IN  CASE m.c = NUL -> Advance(m)
          [] m.c \in json_hex_chars /\ m.tok.st_pos # 0 -> Advance(four)
          [] m.c = "Ctl" -> Back("ctl")
          [] m.c = "Low" -> Back(IF m.high THEN "cp" ELSE "rep")
          [] m.c = "High" /\ ~more -> Back("rep")
          [] m.c = "High" /\ more ->
                 IF next.i = Len(piece)
                 THEN [Keep(next, "rep") EXCEPT !.tok.err = "continue", !.out = TRUE]
                 ELSE [next EXCEPT !.tok.st_pos = 0]
          [] OTHER -> Fail(m, "parse_string")

(* json_parse_int64 and json_parse_double: sscanf takes what it can. *)
IntDigits(buf) ==
    LET u   == Unsigned(buf)
        end == CHOOSE k \in 0 .. Len(u) :
                   /\ \A j \in 1 .. k : u[j] \in Digits
                   /\ k = Len(u) \/ u[k + 1] \notin Digits
    IN  SubSeq(u, 1, end)
IntValue(buf) ==
    LET d == IntDigits(buf)
        z == CHOOSE k \in 0 .. Len(d) - 1 :
                 (\A j \in 1 .. k : d[j] = "0") /\ (d[k + 1] # "0" \/ k = Len(d) - 1)
        canonical == SubSeq(d, z + 1, Len(d))
    IN  IF buf[1] = "-" /\ canonical # <<"0">> THEN <<"-">> \o canonical ELSE canonical
ParsesInt(buf)    == IntDigits(buf) # <<>>
ParsesDouble(buf) ==
    LET u == Unsigned(buf)
    IN  u # <<>> /\ (u[1] \in Digits \/ (Len(u) > 1 /\ u[1] = "." /\ u[2] \in Digits))

Number(m) ==
    LET buf == m.tok.pb
    IN  IF m.c \in json_number_chars
        THEN Advance([Keep(m, m.c) EXCEPT !.len = @ + 1, !.tok.is_double = @ \/ m.c = "."])
        ELSE LET n == [m EXCEPT !.len = 0]
             IN  CASE buf[1] = "-" /\ m.len = 1 /\ m.c = "I" -> Go(n, "inf")
                   [] ~m.tok.is_double /\ ParsesInt(buf) ->
                          IF IntValue(buf) # <<"0">> /\ buf[1] = "0" /\ m.tok.strict
                          THEN Fail(n, "parse_number") ELSE Value(n, Integer(IntValue(buf)))
                   [] m.tok.is_double /\ ParsesDouble(buf) -> Value(n, Double(buf))
                   [] OTHER -> Fail(n, "parse_number")

(* A level for the value to come. *)
Deeper(m, s) ==
    IF Depth(m) >= max_depth - 1 THEN Fail(m, "depth")
    ELSE [Go(m, s) EXCEPT !.tok.stack = Append(@, Level)]

ArrayState(m) ==
    CASE m.c = "]" /\ Top(m).state = "array_after_sep" /\ m.tok.strict -> Fail(m, "parse_unexpected")
      [] m.c = "]" -> Advance(Skip(m, "finish"))
      [] OTHER -> Deeper(m, "array_add")

ArrayAdd(m) == Skip(Set(m, "current", json_object_array_add(Top(m).current, m.obj)), "array_sep")

ArraySep(m) ==
    CASE m.c = "]" -> Advance(Skip(m, "finish"))
      [] m.c = "," -> Advance(Skip(m, "array_after_sep"))
      [] OTHER -> Fail(m, "parse_array")

ObjectFieldStart(m) ==
    CASE m.c = "}" /\ Top(m).state = "object_field_start_after_sep" /\ m.tok.strict ->
             Fail(m, "parse_unexpected")
      [] m.c = "}" -> Advance(Skip(m, "finish"))
      [] m.c \in {"\"", "'"} -> Advance([Begin(m, "object_field") EXCEPT !.tok.quote = m.c])
      [] OTHER -> Fail(m, "parse_object_key_name")

ObjectFieldEnd(m) ==
    IF m.c = ":" THEN Advance(Skip(m, "object_value")) ELSE Fail(m, "parse_object_key_sep")

ObjectValue(m) == Deeper(m, "object_value_add")

ObjectValueAdd(m) ==
    Skip(Set(Set(m, "current", json_object_object_add(Top(m).current, Top(m).name, m.obj)),
             "name", <<>>), "object_sep")

ObjectSep(m) ==
    CASE m.c = "}" -> Advance(Skip(m, "finish"))
      [] m.c = "," -> Advance(Skip(m, "object_field_start_after_sep"))
      [] OTHER -> Fail(m, "parse_object_value_sep")

Switch(m, piece) ==
    LET s == Top(m).state
    IN  CASE s = "eatws"  -> Eatws(m)
          [] s = "start"  -> Start(m)
          [] s = "finish" -> Finish(m)
          [] s = "inf"    -> Inf(m)
          [] s = "null"   -> NullOrNaN(m)
          [] s = "boolean" -> BooleanWord(m)
          [] s = "comment_start" -> CommentStart(m)
          [] s = "comment" -> Comment(m)
          [] s = "comment_eol" -> CommentEol(m)
          [] s = "comment_end" -> CommentEnd(m)
          [] s = "string" -> StringState(m)
          [] s = "string_escape" -> StringEscape(m)
          [] s = "escape_unicode" -> EscapeUnicode(m, piece)
          [] s = "number" -> Number(m)
          [] s \in {"array", "array_after_sep"} -> ArrayState(m)
          [] s = "array_add" -> ArrayAdd(m)
          [] s = "array_sep" -> ArraySep(m)
          [] s \in {"object_field_start", "object_field_start_after_sep"} -> ObjectFieldStart(m)
          [] s = "object_field" -> ObjectField(m)
          [] s = "object_field_end" -> ObjectFieldEnd(m)
          [] s = "object_value" -> ObjectValue(m)
          [] s = "object_value_add" -> ObjectValueAdd(m)
          [] s = "object_sep" -> ObjectSep(m)

(* PEEK_CHAR at the end of the piece. *)
PieceEnds(m) ==
    [m EXCEPT !.out = TRUE,
              !.tok.err = IF Depth(m) = 0 /\ Top(m).state = "eatws" /\ Top(m).saved = "finish"
                          THEN "success" ELSE "continue"]

RECURSIVE Run(_, _)
Run(m, piece) ==
    IF m.out THEN m
    ELSE IF m.i = Len(piece) THEN PieceEnds(m)
    ELSE Run(Switch([m EXCEPT !.c = piece[m.i + 1]], piece), piece)

(* The end of a call: a value is handed out and the levels are reset,      *)
(* though not their number.  A NULL character in the middle of something   *)
(* is an error, unless that something is a comment behind a value. *)
Out(m) ==
    LET err == CASE m.c = NUL /\ Top(m).state # "finish" /\ Top(m).saved # "finish" -> "parse_eof"
                 [] m.c # NUL /\ Top(m).state = "finish" /\ Depth(m) = 0 /\ m.tok.strict ->
                        "parse_unexpected"
                 [] OTHER -> m.tok.err
    IN  [tok   |-> IF err = "success"
                   THEN [m.tok EXCEPT !.err = err, !.stack = [d \in DOMAIN @ |-> Level]]
                   ELSE [m.tok EXCEPT !.err = err],
         value |-> IF err = "success" THEN Top(m).current ELSE Null,
         char_offset |-> m.i]

json_tokener_parse_ex(t, piece) == Out(Run(Machine(t), piece))

(***************************************************************************)
(* The caller                                                              *)
(***************************************************************************)

(* Where a piece may not end without a difference: between the sign and    *)
(* the word of -Infinity; before the last character of a negative number   *)
(* that such a word follows, as case_len then is 1, too; and within a      *)
(* surrogate pair. *)
CutMatters(t, k) ==
    \/ t[k] = "-" /\ t[k + 1] = "I"
    \/ \E n \in 1 .. k : /\ t[n] = "-" /\ (n > 1 => t[n - 1] \notin json_number_chars)
                         /\ Range(SubSeq(t, n, k + 1)) \subseteq json_number_chars
                         /\ k + 2 <= Len(t) /\ t[k + 2] = "I"
    \/ \E h \in 1 .. k : /\ t[h] = "High" /\ k < h + 3 /\ h + 3 <= Len(t)
                         /\ t[h + 1] = "\\" /\ t[h + 2] = "u"

MinusInfinity(t) == \E k \in 1 .. Len(t) - 1 : t[k] = "-" /\ t[k + 1] = "I"

Terminated(p) == Append(json_object_to_json_string_ext(p.value, p.flags), NUL)

Init ==
    /\ \E strict \in BOOLEAN : tok = json_tokener_new(strict)
    /\ value = Null
    /\ \/ text \in Texts /\ source = {}
       \/ \E p \in Printed : text = Terminated(p) /\ source = {p}
    /\ given = 0 /\ texts = 1 /\ delicate = FALSE

(* Another piece of the text, the first included.  After a value the rest  *)
(* of the text is another text. *)
Parse(k) ==
    /\ given = 0 \/ tok.err = "continue"
    /\ given + k <= Len(text)
    /\ LET call == json_tokener_parse_ex(tok, SubSeq(text, given + 1, given + k))
       IN  tok' = call.tok /\ value' = call.value
    /\ given' = given + k
    /\ delicate' = (delicate \/ (given' \in 1 .. Len(text) - 1 /\ CutMatters(text, given')))
    /\ UNCHANGED <<text, texts, source>>

(* What an earlier text has left behind makes a difference: st_pos, for    *)
(* -Infinity, and the depth, after a comment that ended with the input. *)
NextText(t) ==
    /\ texts < MaxTexts /\ texts' = texts + 1
    /\ text' = t /\ given' = 0 /\ value' = Null /\ source' = {}
    /\ delicate' = ((tok'.st_pos # 0 /\ MinusInfinity(t)) \/ Len(tok'.stack) > 1)

(* json_tokener_reset, after an error or in the middle of a text. *)
Reset ==
    /\ tok' = json_tokener_reset(tok)
    /\ \E t \in Later : NextText(t)

(* Another text after a value, without a reset. *)
ParseAnother ==
    /\ given > 0 /\ tok.err = "success"
    /\ UNCHANGED tok
    /\ \E t \in Later : NextText(t)

Next == (\E k \in 0 .. Len(text) : Parse(k)) \/ Reset \/ ParseAnother

Spec == Init /\ [][Next]_vars

(***************************************************************************)
(* Properties                                                              *)
(***************************************************************************)

(* However a text is cut into pieces, empty ones included, and whatever    *)
(* the tokener has parsed, failed at or given up before, what it returns   *)
(* is what a new tokener returns for all of it at once.  Excepted are the  *)
(* cuts and the leftovers that make a difference in this version. *)
SameAsOneCall ==
    given > 0 /\ ~delicate =>
        LET whole == json_tokener_parse_ex(json_tokener_new(tok.strict), SubSeq(text, 1, given))
        IN  tok.err = whole.tok.err /\ value = whole.value

RECURSIVE Nesting(_)
Nesting(v) ==
    CASE v[1] = "array"  -> 1 + FoldLeft(LAMBDA n, w : IF Nesting(w) > n THEN Nesting(w) ELSE n,
                                         0, v[2])
      [] v[1] = "object" -> Nesting(Array([i \in DOMAIN v[2] |-> v[2][i][2]]))
      [] OTHER -> 1

(* st_pos has been left behind by a word or an escape before it. *)
LateMinusInfinity(t) ==
    \E k \in 2 .. Len(t) - 1 :
        /\ t[k] = "-" /\ t[k + 1] = "I"
        /\ \E j \in 1 .. k - 1 : t[j] \in {"t", "f", "n", "I", "u"}

(* What the library prints, in any of its formats, it reads back as the    *)
(* value that was printed, strict or not, unless it nests too deep, which  *)
(* it says; and no array or object that breaks off is taken for a value.   *)
(* -Infinity behind a word or an escape is not read in this version. *)
PrintedIsRead ==
    \A p \in source :
        given = Len(text) /\ ~delicate /\ ~LateMinusInfinity(text) =>
            /\ IF Nesting(p.value) <= max_depth
               THEN tok.err = "success" /\ value = p.value
               ELSE tok.err = "depth"
            /\ p.value[1] \in {"array", "object"} =>
                   \A k \in 1 .. Len(text) - 2 :
                       LET half == Append(SubSeq(text, 1, k), NUL)
                       IN  json_tokener_parse_ex(json_tokener_new(tok.strict), half).tok.err
                               # "success"
=============================================================================
