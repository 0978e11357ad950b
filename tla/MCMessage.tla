------------------------------ MODULE MCMessage ------------------------------
(* Two arenas, arguments whose alignments need padding, and one array, which *)
(* is passed as itself and stored as a pointer: of twelve bytes, in which a  *)
(* pointer has room, or of two, in which it has none.                        *)
EXTENDS Message, TLC

AllTypes == {"char", "int", "double", "pointer", "char[12]", "char[2]"}

SizeTable ==
    [t \in AllTypes |->
        CASE t = "char" -> 1 [] t = "int" -> 4 [] t = "char[12]" -> 12
          [] t = "char[2]" -> 2 [] OTHER -> 8]

AlignTable ==
    [t \in AllTypes |->
        CASE t = "int" -> 4 [] t \in {"double", "pointer"} -> 8 [] OTHER -> 1]

DecayTable ==
    [t \in AllTypes |-> IF t \in {"char[12]", "char[2]"} THEN "pointer" ELSE t]

Lists ==
    {<<>>, <<"char", "int">>, <<"int", "char", "double">>, <<"char[12]">>,
     <<"int", "char[2]">>}

Places ==
    Permutations(Objects) \cup Permutations(Promises) \cup Permutations(Futures)
        \cup Permutations(Resources)

=============================================================================
