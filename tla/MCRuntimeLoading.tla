--------------------------- MODULE MCRuntimeLoading ---------------------------
(***************************************************************************)
(* Numba and another provider with an entry each; a class from bitcode     *)
(* that refers to both, one of them by a name with a dot whose sanitized   *)
(* form is the other's name, and a class from bytecode without references. *)
(* Others may register values of a type generated code does not expect.    *)
(***************************************************************************)
EXTENDS RuntimeLoading

CONSTANTS numba, other, field, dotted, bitcode, bytecode, long, int

MCProviders  == {numba, other}
MCEntries    == [p \in MCProviders |-> IF p = numba THEN [n \in {field} |-> long]
                                                    ELSE [n \in {dotted} |-> long]]
MCReferences == [c \in {bitcode, bytecode} |-> IF c = bytecode THEN {} ELSE {field, dotted}]
MCSanitized  == [n \in {field, dotted} |-> field]
=============================================================================
