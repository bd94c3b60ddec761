------------------------------ MODULE MCLookup ------------------------------
(***************************************************************************)
(* An instance of Lookup for TLC: every provider's file of up to two of    *)
(* the lines below, or of three that begin with an address.                *)
(***************************************************************************)
EXTENDS Lookup

Lines == {
  <<"i","=","h","\n">>, <<" "," ","i"," ","="," ","h"," ","\n">>, <<"i","=","h","\r","\n">>,
  <<"p","=","8","0","\n">>, <<"p","=","7","0","0","0","0">>, <<"p","=","-","1","\n">>,
  <<"p","="," ","\n">>, <<"i","=","a"," ","h","\n">>, <<"#","p","=","9","\n">>, <<"p","\n">>, <<" ","\n">>,
  <<"#",".",".",".",".",".",".",".","p","=","9","\n">> }

MCTexts == [p \in Processes |->
  IF p = Caller THEN {<<>>}
  ELSE UNION { {<<>>, a, a \o b, <<"i","=","h","\n">> \o a \o b} : a \in Lines, b \in Lines }]

MCCommandLines == {<<>>, <<"word">>, <<"-x", "-i file">>, <<"-i missing">>,
                   <<"-i missing", "-i file">>, <<"-i file", "-i">>}
MCCharacters == ToSet(Digits) \union {":", "a", "h", "i", "p", "=", "#", " ", "-", ".", "\r", "\n"}
MCGarbage == {<<>>, <<"1">>, <<"a", "1">>}
=============================================================================
