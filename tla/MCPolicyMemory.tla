--------------------------- MODULE MCPolicyMemory ---------------------------
(* PolicyMemory with apples that are sound, mouldy or small, and a hammer. *)
EXTENDS PolicyMemory

apple(defect, small, sure) ==
    [name |-> "apple", unknown |-> FALSE, small |-> small, sure |-> sure, defect |-> defect]
blob == [name |-> "apple", unknown |-> TRUE, small |-> FALSE, sure |-> FALSE, defect |-> "none"]

AllSights == {apple("none", FALSE, TRUE), apple("none", FALSE, FALSE),
              apple("mold", FALSE, TRUE), apple("none", TRUE, FALSE), blob}
Clear     == {apple("mold", FALSE, TRUE)}
AllRules  == {<<<<"apple", "small">>, "normal_box">>, <<<<"hammer", "unknown">>, "discard_box">>,
              <<<<"apple", "small">>, "ask_human">>}
AllLoss == [c \in Condition |-> [d \in Boxes |->
              IF c \in {"mold", "unknown"} THEN 1000
              ELSE IF d \in {"ugly_box", "processing_box"} THEN 5 ELSE 10]]
NoDefaults == [k \in Key |-> "none"]
AllDefaults ==
    [k \in Key |-> CASE k = <<"apple", "normal">>  -> "normal_box"
                     [] k = <<"apple", "mold">>    -> "discard_box"
                     [] k = <<"apple", "scratch">> -> "processing_box"
                     [] k = <<"apple", "bruise">>  -> "ugly_box"
                     [] k = <<"apple", "unknown">> -> "ask_human"
                     [] OTHER -> "none"]
=============================================================================
