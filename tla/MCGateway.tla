----------------------------- MODULE MCGateway -----------------------------
(***************************************************************************)
(* Threads of one process and two models, of which the second is what the  *)
(* first falls back to.                                                    *)
(***************************************************************************)
EXTENDS Gateway

CONSTANTS api, first, second

MCProcessOf == [t \in Thread |-> api]
MCFallbacks == <<second>>
\* One model for both uses, as the settings' defaults have it.
MCSettings == {[primary |-> first, cheap |-> first]}
\* GEMINI_MODEL is changed between two starts.
MCNewModel == MCSettings \cup {[primary |-> second, cheap |-> second]}

=============================================================================
