------------------------------- MODULE MCLexer -------------------------------
(* All short texts over small alphabets, and texts with unterminated and broken
   literals and comments on several lines. *)
EXTENDS PrintError

TextsOver(chars, n) == UNION {[1..k -> chars] : k \in 0..n}

CommentTexts == TextsOver({"nl", "/", "*", "a"}, 5)
StringTexts == TextsOver({"nl", "q", "bs", "t", "tab", ";"}, 5)
\* Every escape, and every character that one stands for.
Escapable == DOMAIN Escape \cup {Escape[c] : c \in DOMAIN Escape}
EscapeTexts == {<<"q">> \o t \o <<"q">> : t \in TextsOver(Escapable \cup {"?"}, 3)}
RawTexts == {<<"R", "q">> \o t : t \in TextsOver({"(", ")", "a", "q"}, 5) \cup TextsOver({"bell", "(", ")", "q"}, 5)}
NumberTexts == TextsOver({"0", "9", "a", "R"}, 4)
OddTexts == TextsOver({"R", "0", "sp", "=", "?", "q"}, 4)

LiteralLines == TextsOver({"nl", "q", "bs", "0"}, 6)
RawLines == {t \o <<"R", "q">> \o u : t \in TextsOver({"nl", "0"}, 1), u \in TextsOver({"(", ")", "nl", "q"}, 4)}
CommentLines == {t \o <<"/", "*">> \o u : t \in TextsOver({"nl", "0"}, 2), u \in TextsOver({"*", "/", "nl"}, 3)}

OneKeyword == {<<"a", "R">>}

AllTexts == CommentTexts \cup StringTexts \cup EscapeTexts \cup RawTexts \cup OddTexts \cup NumberTexts \cup LiteralLines \cup RawLines \cup CommentLines

CommentOnlyTexts == TextsOver({"/", "nl", "a"}, 4)
=============================================================================
