----------------------------- MODULE MCFraming -----------------------------
(* Instance of Framing and Answers for TLC: a client whose port is the     *)
(* code of a request, texts with the separators in them, one of them with  *)
(* a code before its own "|||"; relayed texts that leave separators and    *)
(* result codes in the listener's buffer, and short ones that do not cover *)
(* them.                                                                   *)
EXTENDS Answers

MCChar == {NUL, Bar, Colon, "a", "x", Plus, "space", "u", "v", "h", "i", "k", "O", "K", ","} \cup DOMAIN DigitValue
MCSelf == <<"u">>
MCPort == <<"1", "0", "0", "4">>
MCGuests == {<<"v">>}
MCTexts ==
    {<<"+", "1", "0", "0", "5", "|", "|", "|", "k", ":">>,
     <<"|", "|", "|", ":", "k">>}
MCRelayed ==
    {<<"h", "i">>,
     <<"1", "0", "0", "1", "5">>,
     <<"0", "|", "|", "|", "1", "0", "0", "1", "5", "|", "|", "|", "k">>,
     <<"0", "|", "|", "|", "1", "0", "0", "1", "3">>}
=============================================================================
