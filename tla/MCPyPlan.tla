------------------------------ MODULE MCPyPlan ------------------------------
(* Scripts of a few calls, one menu per group of methods that meet. *)
EXTENDS PyPlan

Menu(sources, methods, n, keys, sorts) ==
    [sources |-> sources, methods |-> methods, calls |-> n, keys |-> keys, sorts |-> sorts]

MCMenus ==
    { Menu(<<"source_csv">>, {"map", "with_broadcast_set", "output"}, 5, {}, {}),
      Menu(<<"source_text">>, {"map", "co_group", "output"}, 4, {<<2, 0>>}, {}),
      Menu(<<"source_value">>, {"map", "union", "join", "cross", "using", "output"}, 4, {<<1>>}, {}),
      Menu(<<"source_value", "source_csv">>, {"cross", "join", "project_first", "output"}, 3,
           {<<0, 2>>, <<Selector>>}, {}),
      Menu(<<"source_csv">>, {"group_by", "sort_group", "g_reduce", "g_reduce_group", "g_first",
                          "output"}, 5, {<<1>>, <<2, 0>>, <<Selector>>}, {3, Selector}),
      Menu(<<"source_csv">>, {"filter", "group_by", "g_aggregate", "and_agg", "output"}, 5, {<<1>>}, {}),
      Menu(<<"source_seq">>, {"filter", "flat_map", "reduce", "reduce_group", "aggregate", "project",
                          "distinct", "partition_by_hash", "first", "rebalance", "map_partition",
                          "zip_with_index", "write_text", "write_csv"}, 3, {<<1>>, <<Selector>>}, {}) }

MCNames == {"b", "counts"}
=============================================================================
