-------------------------- MODULE MCLoggerRegistry --------------------------
(* Instances of LoggerRegistry, with a chain of three names below the root,  *)
(* and a sibling with an empty part, which is left out of its ancestors, and *)
(* of Finalization, for TLC. A behaviour is one of either: which, is chosen  *)
(* at the beginning.                                                         *)
EXTENDS LoggerRegistry, TLC

VARIABLES part, made, gone, writers, used, known, children, phase, dangling, waiting

finalization == <<made, gone, writers, used, known, children, phase, dangling, waiting>>

Final == INSTANCE Finalization WITH held <- used

SomeNames == {Root, <<"a">>, <<"a", "b">>, <<"a", "b", "c">>, <<"a", "", "c">>}
Addresses == Permutations(Objects)

\* The part that is not chosen stays in its initial state.
PartsInit == Init /\ Final!Init /\ part \in {"registry", "finalize"}

PartsNext == \/ part = "registry" /\ Next /\ UNCHANGED <<part, finalization>>
             \/ part = "finalize" /\ Final!Next /\ UNCHANGED <<part, vars>>

PartsSpec == PartsInit /\ [][PartsNext]_<<part, vars, finalization>>

\* The property of Finalization, where it is stated.
NothingGoneIsUsed == Final!NothingGoneIsUsed
=============================================================================
