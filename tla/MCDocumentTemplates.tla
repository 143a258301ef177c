------------------------- MODULE MCDocumentTemplates -------------------------
(* Two versions of one format: of contracts, with a text and a table, and  *)
(* of orders, with the text alone.                                         *)
EXTENDS DocumentTemplates, TLC

OneCode == [v \in Templates |-> "contract"]

Kind == [v \in Templates |-> IF v = "v1" THEN "CONTRACT" ELSE "TRANSPORT_ORDER"]

Body == [v \in Templates |->
            [plain |-> {"name"}, blocks |-> IF v = "v1" THEN {"table"} ELSE {}]]

Bound(name, optional, table) ==
    ("name" :> [binding |-> name, mandatory |-> ~ optional])
        @@ ("table" :> [binding |-> table, mandatory |-> TRUE])

Forms ==
    {Bound("legal_name", FALSE, "rates"),       \* as it should be
     Bound("legal_name", TRUE, "rates"),        \* the name is optional
     Bound("rates", TRUE, "rates"),             \* the table where a text goes
     Bound("legal_name", FALSE, "legal_name"),  \* a text where the table goes
     Bound("rates[]", TRUE, "rates"),           \* a text the trigger takes for a path
     "name" :> [binding |-> "legal_name", mandatory |-> TRUE],
     Bound("bank_account", FALSE, "rates")}     \* a path nobody publishes

SessionSymmetry == Permutations(Sessions)
==============================================================================
