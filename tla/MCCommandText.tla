---------------------------- MODULE MCCommandText ----------------------------
(* CommandText with all texts up to MaxText characters, and all orders of  *)
(* up to two values of up to MaxValue characters, behind the mnemonic      *)
(* <<"letter">>; each value is bare or in quotes that it does not contain. *)
EXTENDS CommandText

CONSTANTS MaxText, MaxValue

MCTexts == SeqOf(Chars, MaxText)

MCWords(gaps) ==
    {w \in [gap : gaps, quote : Quotes \cup {None}, value : SeqOf(Chars, MaxValue)] :
        w \in Words}

MCOrders ==
    [mnemonic : {<<"letter">>},
     words    : {<< >>}
                \cup {<<w>> : w \in MCWords({<<"blank">>})}
                \cup {<<w, x>> : w \in MCWords({<<"newline">>}),
                               x \in MCWords({<<"blank">>, <<"blank", "blank">>})}]

Param(type, optional) == [type |-> type, optional |-> optional]

MCSignatures ==
    { << >>,
      <<Param("str", FALSE)>>,
      <<Param("int", FALSE), Param("bool", TRUE)>>,
      <<Param("ip", FALSE), Param("float", FALSE), Param("str", TRUE)>> }
=============================================================================
