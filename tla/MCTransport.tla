---------------------------- MODULE MCTransport ----------------------------
(* A hello, a notify without payload, and a payload longer than one byte   *)
(* of a size can say; their bytes are the separator and module tags.       *)
EXTENDS Transport

MCSenders == {"hello", "notify", "update"}

HE == <<72, 69>>
PA == <<80, 65>>

MCPacket == [s \in MCSenders |->
    [meta |-> <<1, 1, 1>>,
     modules |-> CASE s = "hello"  -> [i \in {PA} |-> <<93, 93>>]
                   [] s = "notify" -> [i \in {HE} |-> <<58>>]
                   [] s = "update" -> [i \in {HE, PA} |-> IF i = HE THEN <<58>> ELSE [j \in 1..5 |-> 93]]]]
=============================================================================
