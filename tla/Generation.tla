----------------------------- MODULE Generation -----------------------------
(***************************************************************************)
(* The two generators of the composition experiment that search: the       *)
(* screened composition (Engine::issue_screened_composition) and the order *)
(* synthesis (Engine::issue_order_synthesis).  A call runs one of them to  *)
(* its end.                                                                *)
(***************************************************************************)
EXTENDS Screening, OrderSynthesis

VARIABLE method     \* which of the two runs

vars == <<method, screeningVars, orderVars>>

Init ==
    /\ method \in {"screened", "order"}
    /\ ScreeningInit
    /\ OrderInit

Next ==
    \/ method = "screened" /\ ScreeningNext /\ UNCHANGED <<method, search, private>>
    \/ method = "order" /\ OrderNext /\ UNCHANGED <<method, locals>>

\* A generation is a sequential computation, which goes on while it can.
Spec == Init /\ [][Next]_vars /\ WF_vars(Next)

-----------------------------------------------------------------------------
(***************************************************************************)
(* Property.                                                               *)
(***************************************************************************)
\* screening.rs:205, order_synthesis.rs:197: however the candidates, the pool and
\* the draws fall out, a generation ends, by an answer of its kind or as exhausted;
\* it never goes on without a candidate to try.
GenerationEnds ==
    <>(/\ pc = "done"
       /\ answer \in {"GenerationExhausted", IF method = "order" THEN "Cases" ELSE "Suite"})
=============================================================================
