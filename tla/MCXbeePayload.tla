---------------------------- MODULE MCXbeePayload ----------------------------
(***************************************************************************)
(* An instance of XbeePayload for TLC, with ids of the code's 16 bits.     *)
(***************************************************************************)
EXTENDS XbeePayload

UpToNineBits == UNION {[1 .. n -> {0, 1}] : n \in 1 .. 9}

\* "pos", "mesh_test" and "test".
PosType == <<112, 111, 115>>
MeshTestType == <<109, 101, 115, 104, 95, 116, 101, 115, 116>>
TestType == <<116, 101, 115, 116>>

\* A text of the given words, here and there with a line feed in between.
Words(words) == FoldLeft(LAMBDA text, word : text \o <<10>> \o word,
                         Head(words), Tail(words))

\* Two bytes of any kind; positions with all words and without the last; tests
\* with all, too few and no numbers; a packet of a test; another type.
MCTexts ==
    UNION {[1 .. n -> {0, 10, 32, 127}] : n \in 0 .. 2}
        \union {Words(<<PosType>> \o [i \in 1 .. n |-> <<48 + i>>]) : n \in {5, 6}}
        \union {Words(<<MeshTestType>> \o [i \in 1 .. n |-> <<d>>]) :
                   n \in {2, 3, 4}, d \in {55, 97}}
        \union {TestType, Words(<<TestType, <<55>>>>), Words(<<<<115, 116, 114>>, <<55>>>>)}

\* A delay of 1.5 with 20 packets of 3 bytes, and of 0.0 with none.
MCTests == {<<<<49, 46, 53>>, <<50, 48>>, <<51>>>>, <<<<48, 46, 48>>, <<48>>, <<48>>>>}
=============================================================================
