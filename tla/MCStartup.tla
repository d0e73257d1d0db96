----------------------------- MODULE MCStartup -----------------------------
(***************************************************************************)
(* Startup for TLC: files written from lists of sections, with a comment   *)
(* or a blank anywhere in some of them, and texts that are not of the form.*)
(***************************************************************************)
EXTENDS Startup

Var(n, v) == [var |-> <<n>>, value |-> v]

GeneralOf(vs) == [name |-> <<"G">>, arg |-> <<"s", "d">>, vars |-> vs]
Full    == GeneralOf(<<Var("u", <<"n">>), Var("g", <<"n", "g">>), Var("d", <<"/">>)>>)
NoGroup == GeneralOf(<<Var("u", <<"n">>), Var("d", <<"/">>)>>)
NoRoot  == GeneralOf(<<Var("g", <<"n">>), Var("u", <<>>)>>)
Mime    == [name |-> <<"T">>, arg |-> <<"t">>, vars |-> <<Var(".", <<"x">>)>>]
Cgi     == [name |-> <<"M", "o">>, arg |-> <<"c">>,
            vars |-> <<Var("p", <<"l">>), Var("r", <<"m">>)>>]
NoMime  == [name |-> <<"M">>, arg |-> <<"n">>, vars |-> <<Var("p", <<"l">>)>>]
NoPath  == [name |-> <<"M">>, arg |-> <<"a">>, vars |-> <<Var("r", <<"l">>)>>]
Empty   == [name |-> <<"M">>, arg |-> <<>>, vars |-> <<>>]

Docs == {<<Full, Mime>>, <<Full, Mime, Cgi>>, <<Cgi, Mime, NoPath, Full>>,
         <<Cgi, Mime, Cgi, Full>>, <<Full, NoMime, Mime>>, <<Cgi, Full, NoMime>>,
         <<NoMime, Cgi, Full>>, <<NoGroup, Mime>>, <<NoRoot, Mime>>, <<Full>>,
         <<Mime>>, <<Empty, Full, Mime>>, <<Full, Empty, Mime>>, <<Empty>>}

At(s, k, x) == SubSeq(s, 1, k) \o x \o SubSeq(s, k + 1, Len(s))

Noise == {<<" ">>, <<"#", "{", ";", "#", "\n">>}

Plain(doc) == [text |-> TextOf(doc), doc |-> doc, good |-> TRUE]
Noisy(doc) ==
    {[text |-> At(TextOf(doc), k, x), doc |-> doc, good |-> TRUE] :
        k \in 0 .. Len(TextOf(doc)), x \in Noise}

\* What is in a body without a line, and where the braces do not match.
Odd(text) == [text |-> text, doc |-> <<>>, good |-> FALSE]
OddTexts ==
    {<<>>, <<"#">>, <<"G", "(", ")", "{", "\n", "#">>,
     <<"G", "(", ")", "{">>, <<"G", "}", "{">>, <<"}", "G", "(", ")", "{">>,
     <<"{", "}">>, <<"G", ")", "(", "{", "}">>, <<"G", "(", "(", ")", "{", "}">>,
     <<"G", "(", ")", "{", "a", "}">>,
     <<"G", "(", ")", "{", "a", "b", "}", "M", "(", "x", ")", "{", "}">>,
     <<"G", "(", ")", "{", "(", "y", ")", "}", "M", "(", "x", ")", "{", "}">>,
     <<"G", "(", ")", "{", "a", ";", "}">>,
     <<"G", "(", ")", "{", "a", ";", "b", "=", "}">>,
     <<"G", "(", ")", "{", "a", "=", "b", "=", ";", ";", "}">>,
     <<"G", "(", "a", "{", ";", "}", ")", "M", "(", "x", ")", "{", "}">>}

MCFiles ==
    {Plain(doc) : doc \in Docs} \cup {Odd(text) : text \in OddTexts}
      \cup Noisy(<<Full, Mime>>) \cup Noisy(<<Mime, Empty, Full>>)
=============================================================================
