------------------------------ MODULE MCCodec -------------------------------
(* Objects for QapCodec: every type, nested and with attributes. *)
EXTENDS QapCodec

Sym(s)    == Object("SYMSXP", s, <<>>)
Plain(t, v) == Object(t, v, <<>>)

Leaves ==
    <<Nil, Plain("INTSXP", <<>>), Plain("INTSXP", <<"i1", "i2">>), Plain("REALSXP", <<"d1">>),
      Plain("CPLXSXP", <<"z1">>), Plain("LGLSXP", <<"1", "0", "2">>), Plain("LGLSXP", <<>>),
      Plain("RAWSXP", <<"r1", "r2", "r3", "r4", "r5">>),
      Plain("STRSXP", <<<<"a", "b", "c">>, <<>>, NaString>>),
      Plain("STRSXP", <<<<"ff">>, <<"ff", "a">>>>), Plain("STRSXP", <<>>),
      Sym(<<"n", "a", "m">>), Sym(<<"n", "a", "m", "e">>), Plain("ENVSXP", <<>>)>>

Cell(o, t) == [car |-> o, tag |-> t]

\* Attributes: a names vector with its tag, and two of them.
Names == <<Cell(Plain("STRSXP", <<<<"a">>>>), Sym(<<"n", "a", "m">>))>>
Class == Names \o <<Cell(Plain("INTSXP", <<"i1">>), Sym(<<"c">>))>>

Pairs(S) == [k \in 1..(Len(S) * Len(S)) |->
               <<S[((k - 1) \div Len(S)) + 1], S[((k - 1) % Len(S)) + 1]>>]

Level1 ==
    Leaves
    \o [i \in 1..Len(Leaves) |-> [Leaves[i] EXCEPT !.attrib = Names]]
    \o [k \in 1..Len(Pairs(Leaves)) |-> Plain("VECSXP", Pairs(Leaves)[k])]
    \o [k \in 1..Len(Pairs(Leaves)) |-> Object("VECSXP", Pairs(Leaves)[k], Class)]
    \o [i \in 1..Len(Leaves) |-> Plain("LISTSXP", <<Cell(Leaves[i], Nil)>>)]
    \o [i \in 1..Len(Leaves) |-> Plain("LANGSXP", <<Cell(Sym(<<"f">>), Nil),
                                                   Cell(Leaves[i], Sym(<<"x">>))>>)]
    \o [i \in 1..Len(Leaves) |-> Plain("EXPRSXP", <<Leaves[i]>>)]
    \o <<Plain("CLOSXP", <<List(<<Cell(Nil, Sym(<<"x">>))>>), Sym(<<"x">>)>>),
         Object("S4SXP", <<>>, Class)>>

Bushes == [i \in 1..Len(Leaves) |-> Object("VECSXP", <<Leaves[i], Leaves[4]>>, Names)]

AllObjects ==
    Level1
    \o [k \in 1..Len(Pairs(Bushes)) |-> Plain("VECSXP", Pairs(Bushes)[k])]
    \o [k \in 1..Len(Pairs(Bushes)) |->
          Plain("LISTSXP", <<Cell(Pairs(Bushes)[k][1], Sym(<<"t">>)),
                             Cell(Pairs(Bushes)[k][2], Nil)>>)]

\* A list of logical vectors of length one.
Singles == <<Plain("VECSXP", [i \in 1..4 |-> Plain("LGLSXP", <<"1">>)])>>
=============================================================================
