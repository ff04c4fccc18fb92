-------------------------- MODULE MCDatasetImport --------------------------
(* Finite instances of DatasetImport for TLC. *)
EXTENDS DatasetImport, TLC

(* Every way with duplicates, and the other decisions once each way.       *)
SomePolicies ==
    {[duplicates |-> "keep_first", ordered |-> FALSE, fill |-> FALSE],
     [duplicates |-> "keep_last", ordered |-> TRUE, fill |-> TRUE],
     [duplicates |-> "reject_dataset", ordered |-> TRUE, fill |-> FALSE]}

(* Files of every kind and in every order of day and month, with           *)
(* instruments whose bars differ in length.                                *)
SomeTruths ==
    {[kind |-> x[1], written |-> x[2], shift |-> x[3], unit |-> u] :
        x \in {<<"date", "dmy", 1>>, <<"naive", "mdy", 1>>, <<"naive", "iso", -1>>,
              <<"aware", "iso", 1>>},
        u \in {f \in [Symbols -> Units] : Cardinality({f[s] : s \in Symbols}) = 2}}

SomeDeclarations ==
    {[convention |-> x[1], zone |-> x[2], unit |-> n, confirmed |-> c] :
        x \in {<<"session_date", TRUE>>, <<"interval_start", TRUE>>, <<"interval_start", FALSE>>,
              <<"interval_end", TRUE>>, <<"interval_end", FALSE>>},
        n \in Units, c \in SUBSET Symbols}

SymbolSymmetry == Permutations(Symbols)
=============================================================================
