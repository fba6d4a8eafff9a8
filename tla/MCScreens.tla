----------------------------- MODULE MCScreens -----------------------------
(***************************************************************************)
(* Screens on two small windows: what the host may write is one function   *)
(* of each kind that moves, prints, erases, shifts, scrolls or switches a  *)
(* mode, and the screens it starts from are blank, full, scrolled, in the  *)
(* last corner and in a scrolling region.                                  *)
(***************************************************************************)
EXTENDS Screens

MCSizes == {<<3, 3>>, <<4, 2>>}

MCHostWrites ==
    {Glyph("a"), Glyph("b")}
    \union {Control(name) : name \in {"LF", "CR", "BS", "RI", "HT", "RIS", "DECSC", "DECRC"}}
    \union {CSI(name, <<1>>) : name \in {"EL", "IL", "DL", "ICH", "DCH", "ECH", "SU"}}
    \union {CSI("CUP", <<2, 3>>), CSI("CUP", <<1, 2>>), CSI("DECSTBM", <<1, 2>>),
            CSI("EL", <<>>), CSI("ED", <<2>>),
            CSI("SGR", <<41>>), CSI("SGR", <<7, 38, 5, 9>>), CSI("SGR", <<48, 2, 1, 2, 300>>),
            CSI("DECSM", <<6>>), CSI("DECRM", <<7>>), CSI("SM", <<4>>), CSI("DECSM", <<5>>),
            CSI("DECRM", <<25>>), CSI("DECSM", <<1000, 1006>>),
            OSC("", <<"t", "u", "v">>), OSC("2", <<"t">>), OSC("52", <<"x">>)}

MCBeginnings ==
    {<<>>,
     <<Glyph("a"), Glyph("b"), Glyph("c"), Glyph("d")>>,
     <<Glyph("a"), Control("CR"), Control("LF"), Glyph("b"), Control("CR"), Control("LF"), Glyph("c")>>,
     <<CSI("CUP", <<3, 3>>)>>}
=============================================================================
