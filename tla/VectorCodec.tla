------------------------------- MODULE VectorCodec -------------------------------
(***************************************************************************)
(* Columns of types of any depth: their vectors (src/src/vector.rs), and   *)
(* what is held in them.                                                   *)
(***************************************************************************)
EXTENDS HeldValues

\* encode_flat_vector_body.
RECURSIVE EncodedVector(_, _)
EncodedVector(values, t) ==
    LET inner == Inner(values, t)
    IN EncodedOf(values, t,
                 [k \in DOMAIN inner |-> EncodedVector(inner[k].values, inner[k].type)])

\* decode_vector_body.
RECURSIVE DecodedVector(_, _, _)
DecodedVector(vector, t, count) ==
    LET inner == InnerVectors(vector, t, count)
    IN DecodedOf(vector, t, count,
                 [k \in DOMAIN inner |->
                     DecodedVector(inner[k].vector, inner[k].type, inner[k].count)])

RECURSIVE HeldValue(_, _)
HeldValue(v, t) ==
    LET inner == InnerValues(v, t)
    IN HeldOf(v, t, [k \in DOMAIN inner |-> HeldValue(inner[k].value, inner[k].type)])

RECURSIVE SupportedType(_)
SupportedType(t) ==
    LET inner == TypesInside(t)
    IN SupportedOf(t, [k \in DOMAIN inner |-> SupportedType(inner[k])])
===============================================================================
