------------------------------- MODULE MCPcie -------------------------------
EXTENDS Pcie
MCMachines ==
    {m \in [chip : {"t8140", "other"}, type : {"t81xx", "t602x", "t6031", "t8122", "t8140"},
            nodes : SUBSET {"apcie", "apcie0", "ge0"}, bridges : {{0}, {1}, {0, 1}}] :
        /\ m.chip = "t8140" <=> m.type = "t8140"
        /\ ~({"apcie", "apcie0"} \subseteq m.nodes)
        /\ "ge0" \in m.nodes => m.type = "t602x"}
=============================================================================
