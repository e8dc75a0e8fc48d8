------------------------------- MODULE MCPipeline -------------------------------
(***************************************************************************)
(* Mined graphs of the shapes the miner delivers: the main path of the     *)
(* production graph with its 3-way match gateway n5 and the payment chain  *)
(* n6-n8, a gateway n9 before a chain of tasks, a gateway n13 that the     *)
(* passes do not know, the duplicate check n28, and the end n35. In one    *)
(* shape n9 leads to another whitelisted gateway, n19.                     *)
(***************************************************************************)
EXTENDS GraphPipeline

(* Labels of n5's three edges.                                              *)
MatchLabels ==
  {<<"match", "match", "SCHEDULE_PAYMENT">>, <<"no_match", "MATCH_3_WAY", "SCHEDULE_PAYMENT">>,
   <<Null, Null, Null>>}

ChainShapes == {"complete", "no_execute", "two_approvals", "relabelled"}

(* Edges of n9; the first leads to one target under two labels that mean    *)
(* the same, as n4 -> n5 has been mined.                                    *)
PoEdges ==
  {<<<<"n10", "HAS_PO">>, <<"n11", "HAS_PO">>, <<"n11", "has_po">>>>,
   <<<<"n10", "HAS_PO">>, <<"n11", "HAS_PO">>, <<"n12", "HAS_PO">>>>,
   <<<<"n10", "HAS_PO">>, <<"n11", "HAS_PO">>, <<"n12", "no_po">>>>,
   <<<<"n10", "HAS_PO">>, <<"n12", "HAS_PO">>, <<"n19", "HAS_PO">>>>,
   <<<<"n10", "HAS_PO">>, <<"n11", "no_po">>>>,
   <<<<"n10", "IF_CONDITION">>, <<"n11", "no_po">>>>}

(* Edges of n13.                                                            *)
AmountEdges ==
  {<<<<"n17", "approve">>, <<"n17", "reject">>>>, <<<<"n17", "approve">>, <<"n18", "reject">>>>,
   <<<<"n17", "IF_CONDITION">>, <<"n18", "IF_CONDITION">>>>}

FirstMatch == {"none", "n4"}   \* whether n4 is a match gateway as well

Mined(labels, shape, po, amount, first) ==
  LET Task(id, type) == Node(id, "task", type, "task:" \o type)
      Gate(id, type) == Node(id, "gateway", type, "gw:" \o type)
      chain == IF shape = "two_approvals" THEN <<Task("n8b", "APPROVE")>> ELSE <<>>
      second == IF \E i \in DOMAIN po : po[i][1] = "n19"
                THEN <<Gate("n19", "APPROVE_OR_REJECT")>> ELSE <<>>
  IN [nodes |->
        <<Node("n1", "event", "", "event:start"), Task("n2", "RECEIVE_MESSAGE"),
          Task("n3", "ENTER_RECORD"),
          IF first = "n4" THEN Gate("n4", "MATCH_3_WAY") ELSE Task("n4", "VALIDATE_FIELDS"),
          IF shape = "relabelled" THEN Node("n5", "gateway", "MATCH_3_WAY", "gw:MATCHING")
                                  ELSE Gate("n5", "MATCH_3_WAY"),
          Task("n6", "APPROVE"), Task("n7", "SCHEDULE_PAYMENT"),
          Task("n8", IF shape = "no_execute" THEN "NOTIFY" ELSE "EXECUTE_PAYMENT")>>
        \o chain \o
        <<Gate("n9", "HAS_PO"), Task("n10", "UPDATE_RECORD"), Task("n11", "REVIEW"),
          Task("n12", "ROUTE_FOR_REVIEW"), Gate("n13", "THRESHOLD_AMOUNT"),
          Task("n15", "NOTIFY"), Gate("n16", "IF_CONDITION"),
          Task("n17", "APPROVE"), Task("n18", "UPDATE_STATUS")>>
        \o second \o
        <<Gate("n28", "IF_CONDITION"), Task("n29", "NOTIFY"), Task("n30", "UPDATE_RECORD"), Task("n31", "MATCH_3_WAY"),
          Node("n35", "end", "", "end:end")>>,
      edges |->
        <<Edge("n1", "n2", Null), Edge("n2", "n3", Null), Edge("n3", "n4", Null)>>
        \o (IF first = "n4" THEN <<Edge("n4", "n5", "MATCH_3_WAY"), Edge("n4", "n5", "match")>>
                            ELSE <<Edge("n4", "n5", Null)>>)
        \o <<Edge("n5", "n6", labels[1]), Edge("n5", "n7", labels[2]), Edge("n5", "n8", labels[3])>>
        \o [i \in DOMAIN chain |-> Edge("n5", chain[i].id, labels[1])]
        \o <<Edge("n7", "n8", Null), Edge("n8", "n9", Null)>>
        \o [i \in DOMAIN po |-> Edge("n9", po[i][1], po[i][2])]
        \o (IF second = <<>> THEN <<>>
            ELSE <<Edge("n19", "n11", "approve"), Edge("n19", "n17", "approve"),
                   Edge("n19", "n18", "approve")>>)
        \o <<Edge("n12", "n13", Null)>>
        \o [i \in DOMAIN amount |-> Edge("n13", amount[i][1], amount[i][2])]
        \o <<Edge("n15", "n16", Null), Edge("n16", "n28", "IF_CONDITION"),
             Edge("n28", "n29", "IF_CONDITION"), Edge("n28", "n30", "IF_CONDITION"),
             Edge("n28", "n31", "MATCH_3_WAY"), Edge("n31", "n35", Null)>>]

MCMinedGraphs ==
  {Mined(labels, shape, po, amount, first) :
     labels \in MatchLabels, shape \in ChainShapes, po \in PoEdges,
     amount \in AmountEdges, first \in FirstMatch}
=============================================================================
