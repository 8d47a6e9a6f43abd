---------------------------- MODULE ExamplesRdma -----------------------------
(*****************************************************************************)
(* The RDMA examples: two processes, or one, over ibverbs.                   *)
(*                                                                           *)
(* For each script: how --source builds and runs, how --compare measures     *)
(* and labels, and what main prints and returns.                             *)
(*****************************************************************************)
EXTENDS Scripts

\* example002_rdma_loopback/ib
Single002 == Announced("exit 0", 600)
Compare002 == MeasuredTogether
Main002 == Forwarding

\* example004_rdma_nic_info/ib
Single004 == Announced("PASS text", 30)
Compare004 ==
    [Unmeasured EXCEPT !.labelled = "both ran", !.labels = {"better", "severely_degraded"}]
Main004 == [Forwarding EXCEPT !.fails = "unless better"]

\* example006_rdma_read_write_rc/ib
Single006 == Announced("PASS text", 60)
Compare006 == MeasuredTogether
Main006 == Forwarding

\* example007_rdma_send_recv_uc/ib
Single007 == [Announced("PASS report", 300) EXCEPT !.mourns = {"Compilation failed"}]
Compare007 == [MeasuredApart EXCEPT !.labels = SpeedLabels, !.labelled = "always"]
Main007 == [Forwarding EXCEPT !.shows = "everything if successful"]

\* example008_rdma_write_shared_receive_queue/ib
Single008 == Announced("only the report", 60)
Compare008 == MeasuredTogether
Main008 == Forwarding

\* example009_rdma_recv_and_send/ib
Single009 ==
    [Unannounced("PASSED text", 120) EXCEPT !.compiler = "hidden", !.mourns = {"FAIL"}]
Compare009 == [Unmeasured EXCEPT !.labels = SpeedLabels, !.labelled = "always"]
Main009 == [Forwarding EXCEPT !.errors = "hidden"]

\* example011_rdma_write_rc_with_imm
Single011 == Announced("PASS text", 60)
Compare011 == MeasuredTogether
Main011 == Forwarding

\* example013_rdma_write_zero_message/ib
Single013 == Announced("PASS text", 60)
Compare013 == MeasuredTogether
Main013 == Forwarding

\* example014_rdma_write_inline/ib
Single014 == Announced("PASS text", 60)
Compare014 == MeasuredTogether
Main014 == Forwarding

\* example015_memory_pool_with_registered_region/roce
Single015 == Announced("PASS report", 60)
Compare015 == [Unmeasured EXCEPT !.sides = "absent"]
Main015 == Forwarding

\* example016_rdma_send_recv_ud/amd
Single016amd == Announced("PASS text", 60)
Compare016amd == MeasuredTogether
Main016amd == Forwarding

\* example016_rdma_send_recv_ud/ib
Single016ib == Announced("PASS text", 60)
Compare016ib == MeasuredTogether
Main016ib == Forwarding

\* example019_rdma_write_scatter_gather_lists/ib
Single019 == Announced("PASS text", 60)
Compare019 == MeasuredTogether
Main019 == Forwarding

\* example024_rdma_atomic_cmp_swp/ib
Single024 == Announced("PASS text", 60)
Compare024 == MeasuredTogether
Main024 == Forwarding

\* example025_rdma_atomic_fetch_add/ib
Single025 == Announced("PASS text", 60)
Compare025 == MeasuredTogether
Main025 == Forwarding

\* example026_rdma_ibv_get_async_event
Single026 == [Announced("exit 0", 300) EXCEPT !.mourns = {"FAIL"}]
Compare026 == MeasuredTogether
Main026 == Forwarding

\* example027_rdma_ibv_wr_bind/ib
Single027 == [Announced("PASS report", 60) EXCEPT !.mourns = {"Compilation failed"}]
Compare027 == [Unmeasured EXCEPT !.labels = SpeedLabels, !.labelled = "always"]
Main027 ==
    [shows |-> "report or everything", errors |-> "with stdout", fails |-> "never"]

\* example028_ibv_query_rt_values_ex
Single028 == Unannounced("PASS text", 60)
Compare028 == MeasuredTogether
Main028 == [shows |-> "report if exit 0", errors |-> "hidden", fails |-> "never"]

\* example029_ibv_query_qp_data_in_order
Single029 == Announced("PASS text", 60)
Compare029 == MeasuredTogether
Main029 == Forwarding

RdmaScripts ==
    {Script(Single002, Compare002, Main002), Script(Single004, Compare004, Main004),
     Script(Single006, Compare006, Main006), Script(Single007, Compare007, Main007),
     Script(Single008, Compare008, Main008), Script(Single009, Compare009, Main009),
     Script(Single011, Compare011, Main011), Script(Single013, Compare013, Main013),
     Script(Single014, Compare014, Main014), Script(Single015, Compare015, Main015),
     Script(Single016amd, Compare016amd, Main016amd), Script(Single016ib, Compare016ib, Main016ib),
     Script(Single019, Compare019, Main019), Script(Single024, Compare024, Main024),
     Script(Single025, Compare025, Main025), Script(Single026, Compare026, Main026),
     Script(Single027, Compare027, Main027), Script(Single028, Compare028, Main028),
     Script(Single029, Compare029, Main029)}
=============================================================================
