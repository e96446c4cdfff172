------------------------------ MODULE MCParser -------------------------------
(***************************************************************************)
(* The sources that are parsed: every short text over a few words, where   *)
(* the parser looks ahead, goes back or counts; and programs with each     *)
(* construct of the language, right and with one word wrong.               *)
(***************************************************************************)
EXTENDS Parser

Texts(words, n) == UNION {[1 .. k -> words] : k \in 0 .. n}
Within(before, texts, after) == {before \o t \o after : t \in texts}

\* Operators and parentheses; assignment; type arguments or `<`; lambda or parentheses.
ShortTexts ==
    UNION {Texts({"id", "+", "*", "-", "(", ")"}, 3),
           Within(<<"id">>, Texts({"id", "=", ".", "||"}, 4), <<>>),
           Within(<<"id", "<">>, Texts({"id", "<", ">", "(", ")"}, 3), <<>>),
           Within(<<"(", "id">>, Texts({"id", ")", "=>", ":"}, 4), <<>>),
           Within(<<"id", "=", "match", "id", "{", "_">>, Texts({"}", "=>", "nl", "1", "<"}, 3), <<"}">>),
           Within(<<"enum", "id", "{">>, Texts({"}", "id", ","}, 3), <<>>)}

Programs ==
    {<<"let", "[", "id", ",", "...", "id", "]", "=", "[", "...", "id", ",", "nl", "1", "]">>,
     <<"const", "{", "id", "}", ":", "id", "<", "id", ">", "=", "id", ".", "id", "=", "1", "nl">>,
     <<"fn", "id", "<", "id", ">", "(", "id", ":", "int", ")", "->", "int", "{", "return", "}">>,
     <<"type", "id", "=", "[", "int", "]", "?", "|", "nil", "nl">>,
     <<"type", "id", "=", "fn", "(", "int", ")", "->", "id", "<", "id", ">", ";">>,
     <<"class", "id", "<", "out", "id", ":", "id", ">", "extends", "id", "implements", "id", ",", "id",
       "{", "id", ":", "int", "nl", "fn", "id", "(", ")", "{", "}", "nl", "}">>,
     <<"interface", "id", "{", "fn", "id", "(", ")", "->", "int", "nl", "}">>,
     <<"enum", "id", "{", "id", "(", "int", ")", "nl", "id", ",", "}">>,
     <<"import", "{", "id", ",", "id", "}", "from", "str">>,
     <<"import", "str", "nl", "print", "(", "super", ".", "id", "(", "nl", "id", ")", ")">>,
     <<"if", "id", "{", "}", "nl", "else", "if", "!", "id", "{", "}", "else", "{", "throw", "id", "}">>,
     <<"while", "id", "<", "1", "{", "id", "=", "id", "-", "1", "*", "1", "}">>,
     <<"for", "id", ":", "int", "in", "1", "..", "id", "+", "1", "{", "{", "}", "}">>,
     <<"match", "id", "{", "nl", "id", "(", "id", ")", "=>", "1", "nl", "_", "{", "}", "}">>,
     <<"id", "(", "match", "id", "{", "1", "=>", "1", ",", "_", "=>", "id", "nl", "}", ")">>,
     <<"try", "{", "}", "catch", "(", "id", ")", "{", "}", "finally", "{", "return", "1", "}">>,
     <<"id", "=", "(", "id", ":", "int", ",", "id", ")", "->", "int", "=>", "id", "[", "1", "]", "?.", "id">>,
     <<"id", "<", "id", "<", "id", ">", ",", "id", ">", "(", "(", ")", "=>", "{", "}", ")">>,
     <<"id", "??", "id", "&&", "id", "==", "id", "<", "id", ">", "(", "id", ")", "nl", "let", "id">>}
Edited(t) ==
    {RemoveAt(t, k) : k \in DOMAIN t}
      \cup {ReplaceAt(t, k, word) : k \in DOMAIN t, word \in {"id", ")"}}
      \cup {InsertAt(t, k, word) : k \in DOMAIN t, word \in {"nl", "bad"}}

\* Texts that the parser and its document do not agree about.
Disputed ==
    {<<"fn", "<", "id", ">", "id", "(", ")", "{", "}">>,
     <<"interface", "id", "{", "fn", "id", "(", ")", ";", "}">>,
     <<"enum", "id", "{", "id", ",", "id", "}">>,
     <<"let", "[", "...", "id", ",", "id", "]", "=", "id">>,
     <<"id", "=", "type">>,
     <<"match", "id", "{", "1", "=>", "1", ",", "_", "=>", "1", "}">>,
     <<"match", "id", "{", "_", "=>", "1", "nl", "id", "=>", "1", "}">>,
     <<"type", "id", "=", "int", "|", "fn", "(", ")", "->", "int">>,
     <<"id", "=", "1", "+", "id", "<", "int", ">", "(", "1", ")">>,
     <<"if", "id", "{", "}", "else", "if", "if", "id", "{", "}">>}

SmallSources == Disputed \cup ShortTexts \cup Programs \cup UNION {Edited(t) : t \in Programs}
=============================================================================
