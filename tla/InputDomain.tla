------------------------------ MODULE InputDomain ------------------------------
(***************************************************************************)
(* The declared input domain of a case and its validation against AIR      *)
(* (src/tools/input_domain_validator.py).  Enumerations are looked up in a *)
(* field that lowered AIR does not have, and the integer types it knows    *)
(* are not those of ASCP: only BOOL inputs have a value that is accepted.  *)
(***************************************************************************)
EXTENDS AscpFrontEnd

(* The members that AIR declares of a type, under the name that is read.   *)
EnumMembers(air, type) ==
  UNION {ToSet(t.members) : t \in {t \in ToSet(air.types) :
                                     "members" \in DOMAIN t /\ t.name = type}}

IntegerTypes ==
  {"SINT", "INT", "DINT", "LINT", "USINT", "UINT", "UDINT", "ULINT"}

ValueOK(air, type, value) ==
  CASE type = "BOOL" -> value \in {"true", "false"}
    [] type \in IntegerTypes -> value \in Int
    [] OTHER -> value \in EnumMembers(air, type)

InputOK(air, i, domain) ==
  LET declared == air.inputs[i]
      given == domain.inputs[i]
  IN  /\ given.name = declared.name
      /\ given.type = declared.type
      /\ given.values # <<>>
      /\ Cardinality(ToSet(given.values)) = Len(given.values)
      /\ \A v \in ToSet(given.values) : ValueOK(air, declared.type, v)
      /\ declared.type = "BOOL" => given.values = <<"false", "true">>

VectorsOf(domain) ==
  FoldLeft(LAMBDA n, i : n * Len(i.values), 1, domain.inputs)

(* validate_domain, but for the search bounds.                             *)
DomainAccepted(air, domain) ==
  /\ air.inputs # <<>>
  /\ Len(domain.inputs) = Len(air.inputs)
  /\ \A i \in DOMAIN air.inputs : InputOK(air, i, domain)
  /\ VectorsOf(domain) <= domain.maximum

(* enumerate_input_vectors: the product, the last input varying fastest.   *)
Vectors(domain) ==
  FoldLeft(
    LAMBDA vectors, i :
      FoldLeft(LAMBDA longer, v :
                 longer \o [n \in DOMAIN i.values |->
                              v @@ (i.name :> i.values[n])],
               <<>>, vectors),
    <<[x \in {} |-> ""]>>, domain.inputs)
=============================================================================
