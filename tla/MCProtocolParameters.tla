------------------------ MODULE MCProtocolParameters ------------------------
(* Cards for the model checker; see the .cfg files. *)
EXTENDS ProtocolParameters

Level(ta, tb, tc, td) == [ta |-> ta, tb |-> tb, tc |-> tc, td |-> td]

\* The first level with each kind of TA1: none, the default, one without a D,
\* one slower, one faster, one too fast for the twin reader, one no table has.
Ta1s == {Absent, 17, 16, 33, 149, 151, 24}

\* T=0 only; T=1 with the CRC and then with the LRC; T=1 without parameters, but
\* with a level of T=15; T=0 and T=1, negotiable or in specific mode.
McCards ==
    {<<Level(149, Absent, Absent, Absent)>>}
    \cup {<<Level(t, Absent, 3, 1), Level(Absent, Absent, Absent, 1), Level(64, 69, 1, Absent)>> :
             t \in Ta1s}
    \cup {<<Level(t, Absent, Absent, 1), Level(Absent, Absent, Absent, 15),
            Level(3, Absent, Absent, Absent)>> : t \in {Absent, 151}}
    \cup {<<Level(151, Absent, Absent, 0), Level(s, Absent, 20, 1), Level(255, 77, 0, Absent)>> :
             s \in {Absent, 0, 1, 17}}
=============================================================================
