-------------------------- MODULE MCPentairService --------------------------
(* Instances of PentairService for TLC. *)
EXTENDS PentairService, TLC

CONSTANTS c1, c2, c3

NoStream    == <<>>
ShortStream == <<"sys", "temp">>
MediumStream == <<"sys", "corrupt", "temp">>
LongStream   == <<"sys", "corrupt", "temp", "sys", "other">>

AnyCall == Permutations(Calls)
=============================================================================
