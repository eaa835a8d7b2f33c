------------------------------ MODULE MCRouter ------------------------------
EXTENDS Router
MCBackends == {1, 2}
MCNamespaces == {"chat:m1", "chat:m2"}
MCBlocks == {"x", "y", "z"}
MCPrompts == {<<"x", "y">>, <<"x", "z">>}
MCRequests == {"r1", "r2", "r3"}
MCStreaming == {"r2"}
MCNamespaceOf == [r \in Requests |-> IF r = "r3" THEN "chat:m2" ELSE "chat:m1"]
MCPromptOf == [r \in Requests |-> IF r = "r1" THEN <<"x", "y">> ELSE <<"x", "z">>]
MCLimit == [b \in MCBackends |-> 1]
MCCapacity == [b \in MCBackends |-> 3]
MCTwoRequests == {"r1", "r2"}
MCFlaky == {1}
=============================================================================
