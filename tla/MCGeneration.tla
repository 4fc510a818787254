---------------------------- MODULE MCGeneration ----------------------------
(***************************************************************************)
(* Pools of up to four inputs for suites of three, in several orders, with *)
(* repetitions, with one input too many and without the empty one; three   *)
(* orders of the cards that answer four inputs in two ways.                *)
(***************************************************************************)
EXTENDS Generation

\* Up to renaming, the hidden order is the first and answers Nothing to some input.
MCCandidates ==
    LET first == CHOOSE order \in Orders : TRUE
        input == CHOOSE x \in Inputs : TRUE
        two == {Nothing, CHOOSE v \in Outputs \ {Nothing} : TRUE}
    IN  {c \in [meaning : [Orders -> [Inputs -> two]], hidden : {first}] :
            c.meaning[first][input] = Nothing}

MCDraws ==
    LET e == Empty IN
    {<<e, 1, 2, 3>>, <<1, 1, e, 2, e, 3>>, <<1, 2, 3, e>>, <<1, e, 2, 3, 4>>,
     <<1, 2, 3, 4, e>>, <<e, 1, e>>}

MCRivalCounts == {2, 4}
=============================================================================
