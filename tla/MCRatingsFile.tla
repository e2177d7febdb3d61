---------------------------- MODULE MCRatingsFile ----------------------------
(* Two names, one the beginning of the other, files of up to three lines    *)
(* and chunks smaller than most of them.                                    *)
EXTENDS RatingsFile

A  == <<"a">>
AB == <<"a", "b">>

Chars == Digit \cup {NL, Space, "a", "b", "#"}
Names == {A, AB}

Lines == {<<>>, <<"3">>, <<"#", "a">>} \cup {<<d, Space>> \o nm : d \in {"0", "3"}, nm \in Names}
Joined(s, t) == s \o <<NL>> \o t
Files == {<<>>} \cup Lines \cup {Joined(s, t) : s, t \in Lines}
         \cup {Joined(s, Joined(t, u)) : s, t, u \in Lines}
=============================================================================
