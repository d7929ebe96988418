------------------------------ MODULE MCCodec -------------------------------
(***************************************************************************)
(* Codec with short limits; the texts have characters of one, two and four *)
(* octets, the integers lie at the bounds of their types.                  *)
(***************************************************************************)
EXTENDS Codec

A == <<97>>
E == <<195, 169>>
Emoji == <<240, 159, 152, 128>>

As(n) == [i \in 1 .. n |-> A]
MCTexts == {<<>>, <<A>>, <<E, A>>, <<Emoji>>, Reserved, As(6), As(7)}

Wide(neg, o) == Integer("number", neg, o, TRUE)
Ones == [i \in 1 .. 8 |-> 255]
NumberSeq ==
  <<Number(1), Number(65534), Number(65535), Number(65536),
    Wide(FALSE, <<0, 0, 0, 0, 255, 255, 255, 254>>), Wide(FALSE, <<0, 0, 0, 0, 255, 255, 255, 255>>),
    Number(-1), Wide(TRUE, <<255, 255, 255, 255, 128, 0, 0, 0>>),
    Wide(TRUE, <<255, 255, 255, 255, 127, 255, 255, 255>>),
    Integer("number", FALSE, OctetsOf(1), FALSE), Integer("bigint", FALSE, Ones, TRUE),
    Integer("bigint", TRUE, Ones, TRUE), Integer("date", FALSE, OctetsOf(9), TRUE),
    Integer("date", FALSE, OctetsOf(9), FALSE), Integer("date", TRUE, Ones, TRUE)>>

MCNumbers == {NumberSeq[i] : i \in DOMAIN NumberSeq}

\* Tables with one key for each value.
Keyed(values) == [i \in DOMAIN values |-> <<<<<<96 + i>>>>, values[i]>>]
Others ==
  <<Text(<<E, A>>), Bool(TRUE), [t |-> "array", v |-> <<>>], [t |-> "array", v |-> <<None>>],
    [t |-> "null", v |-> <<>>], [t |-> "other", v |-> <<>>],
    Table(Keyed(<<Number(-2), Text(<<A>>)>>)), Table(Keyed(<<[t |-> "null", v |-> <<>>]>>)),
    Text(As(60))>>

MCTables ==
  <<<<>>, <<<<<<E>>, None>>, <<<<A>>, None>>>>, Keyed(<<Text(<<A>>), Text(As(60)), None>>)>>
  \o [i \in 1 .. Len(NumberSeq) |-> Keyed(<<NumberSeq[i], None>>)]
  \o [i \in 1 .. Len(Others) |-> Keyed(<<Others[i]>>)]

\* What a server may put into a table.
Tagged(pairs) == [i \in DOMAIN pairs |-> <<<<<<96 + i>>>>, pairs[i][1], pairs[i][2]>>]
B(kind, v) == [t |-> kind, v |-> v]
Date(octets) == Integer("date", FALSE, octets, TRUE)
MCServerTables ==
  <<<<>>, Tagged(<<<<"t", Bool(TRUE)>>, <<"b", Number(-1)>>, <<"B", Number(255)>>>>),
    Tagged(<<<<"U", Number(-2)>>, <<"u", Number(65535)>>, <<"I", NumberSeq[8]>>,
             <<"i", NumberSeq[6]>>>>),
    Tagged(<<<<"l", NumberSeq[11]>>, <<"L", NumberSeq[12]>>, <<"T", NumberSeq[13]>>>>),
    Tagged(<<<<"T", Date(LatestDate)>>, <<"T", Date([LatestDate EXCEPT ![8] = 1])>>>>),
    Tagged(<<<<"f", B("octets", <<1, 2, 3, 4>>)>>, <<"d", B("octets", Ones)>>,
             <<"S", Text(<<E, A>>)>>>>),
    Tagged(<<<<"A", [t |-> "array", v |-> Tagged(<<<<"t", Bool(TRUE)>>, <<"S", Text(<<E>>)>>>>)]>>,
             <<"V", B("null", <<>>)>>, <<"x", B("bytes", <<7, 8>>)>>>>),
    Tagged(<<<<"F", Table(Tagged(<<<<"x", B("bytes", <<>>)>>, <<"t", Bool(FALSE)>>>>))>>,
             <<"t", Bool(TRUE)>>>>),
    Tagged(<<<<"D", B("octets", <<0, 0, 0, 0, 1>>)>>>>)>>
=============================================================================
