-------------------------- MODULE ExamplesLibraries --------------------------
(*****************************************************************************)
(* Examples over MSCCL++, the device API of NCCL, SGLang and DeepEP's JIT.   *)
(*                                                                           *)
(* For each script: how --source builds and runs, how --compare measures     *)
(* and labels, and what main prints and returns.                             *)
(*****************************************************************************)
EXTENDS Scripts

\* example018_mscclpp_alltoall_easy
Single018 == Unannounced("exit 0", 900)
Compare018 == MeasuredApart
Main018 == [Forwarding EXCEPT !.fails = "either"]

\* example030_mscclpp_allgather_fullmesh_easy
Single030 == Unannounced("exit 0", 900)
Compare030 == MeasuredApart
Main030 == [Forwarding EXCEPT !.fails = "either"]

\* example031_msclpp_allreduce_rsag_zero_easy
Single031 == Unannounced("exit 0", 900)
Compare031 == MeasuredApart
Main031 == [Forwarding EXCEPT !.fails = "either"]

\* example037_mscclpp_reducescatter_easy
Single037 == Unannounced("exit 0", 900)
Compare037 == MeasuredApart
Main037 == [Forwarding EXCEPT !.fails = "either"]

\* example038_mscclpp_mc_put_easy
Single038 == Unannounced("exit 0", 900)
Compare038 == [MeasuredApart EXCEPT !.together = TRUE]
Main038 == [Forwarding EXCEPT !.fails = "either or incorrect"]

\* example039_mscclpp_mc_get_easy
Single039 == Unannounced("exit 0", 900)
Compare039 == [MeasuredApart EXCEPT !.together = TRUE, !.leaves = "a failed build"]
Main039 == [Forwarding EXCEPT !.fails = "either or incorrect"]

\* example040_mscclpp_relaxedsingal_easy
Single040 == Unannounced("exit 0", 900)
Compare040 == [MeasuredApart EXCEPT !.together = TRUE, !.leaves = "a failed build"]
Main040 == [Forwarding EXCEPT !.fails = "either or incorrect"]

\* example043_nccl_device_api_intranode_allreduce
Single043 == Unannounced("PASS report", 900)
Compare043 == [MeasuredApart EXCEPT !.labels = SpeedLabels, !.labelled = "always"]
Main043 ==
    [shows |-> "report if successful", errors |-> "failing", fails |-> "generated"]

\* example044_nccl_device_api_intranode_alltoall/nv
Single044 == Unannounced("exit 0", 900)
Compare044 == MeasuredApart
Main044 == [Forwarding EXCEPT !.fails = "either"]

\* example045_nccl_device_api_allgather_intra
Single045 == [Unannounced("exit 0", 900) EXCEPT !.compiler = "failing"]
Compare045 == MeasuredApart
Main045 == [shows |-> "everything", errors |-> "hidden", fails |-> "either"]

\* example078_deepep_jit_dispatch_deterministic_prologue/nv
Single078 == [Interpreted(900) EXCEPT !.wants = "a report"]
Compare078 == [MeasuredApart EXCEPT !.measured = "reported"]
Main078 == DeepEP

\* example079_deepep_jit_dispatch_notify/nv
Single079 == [Interpreted(900) EXCEPT !.wants = "a report"]
Compare079 == [MeasuredApart EXCEPT !.measured = "reported"]
Main079 == DeepEP

\* example080_deepep_jit_dispatch_payload/nv
Single080 == [Interpreted(900) EXCEPT !.wants = "a report"]
Compare080 == [MeasuredApart EXCEPT !.measured = "reported"]
Main080 == DeepEP

\* example081_deepep_jit_dispatch_copy_epilogue/nv
Single081 == [Interpreted(900) EXCEPT !.wants = "a report"]
Compare081 == [MeasuredApart EXCEPT !.measured = "reported"]
Main081 == DeepEP

\* example082_deepep_jit_combine/nv
Single082 == [Interpreted(900) EXCEPT !.wants = "a report"]
Compare082 == [MeasuredApart EXCEPT !.measured = "reported"]
Main082 == DeepEP

\* example083_deepep_jit_combine_reduce_epilogue/nv
Single083 == [Interpreted(900) EXCEPT !.wants = "a report"]
Compare083 == [MeasuredApart EXCEPT !.measured = "reported"]
Main083 == DeepEP

\* example086_mscclpp_alltoall_hard
Single086 == Unannounced("exit 0", 900)
Compare086 == MeasuredApart
Main086 == [Forwarding EXCEPT !.fails = "either"]

\* example090_mscclpp_mc_get_hard
Single090 == Unannounced("exit 0", 900)
Compare090 == [MeasuredApart EXCEPT !.together = TRUE, !.leaves = "a failed build"]
Main090 == [Forwarding EXCEPT !.fails = "either or incorrect"]

\* example091_nccl_device_api_reducescatter_from_blockers/nv
Single091 == Unannounced("exit 0", 900)
Compare091 == MeasuredApart
Main091 == [Forwarding EXCEPT !.fails = "either"]

\* example092_nccl_device_api_internode_allreduce/nv
Single092 == Unannounced("PASS report", 900)
Compare092 == [MeasuredApart EXCEPT !.labels = SpeedLabels, !.labelled = "always"]
Main092 ==
    [shows |-> "report if successful", errors |-> "failing", fails |-> "generated"]

\* example093_mscclpp_reducescatter_hard
Single093 == Unannounced("exit 0", 900)
Compare093 == MeasuredApart
Main093 == [Forwarding EXCEPT !.fails = "either"]

\* example095_msclpp_allreduce_rsag_zero_hard
Single095 == Unannounced("exit 0", 900)
Compare095 == MeasuredApart
Main095 == [Forwarding EXCEPT !.fails = "either"]

\* example096_mscclpp_mc_put_hard
Single096 == Unannounced("exit 0", 900)
Compare096 == [MeasuredApart EXCEPT !.together = TRUE]
Main096 == [Forwarding EXCEPT !.fails = "either or incorrect"]

\* example101_sglang_qknorm_fused_easy
Single101 == Unannounced("exit 0", 900)
Compare101 == MeasuredApart
Main101 == [Forwarding EXCEPT !.fails = "either"]

\* example102_sglang_qknorm_fused_hard
Single102 == Unannounced("exit 0", 900)
Compare102 == MeasuredApart
Main102 == [Forwarding EXCEPT !.fails = "either"]

\* example105_sglang_custom_allreduce_easy
Single105 == Unannounced("exit 0", 900)
Compare105 == MeasuredApart
Main105 == [Forwarding EXCEPT !.fails = "either"]

\* example109_sglang_custom_allreduce_hard
Single109 == Unannounced("exit 0", 900)
Compare109 == MeasuredApart
Main109 == [Forwarding EXCEPT !.fails = "either"]

LibrariesScripts ==
    {Script(Single018, Compare018, Main018), Script(Single030, Compare030, Main030),
     Script(Single031, Compare031, Main031), Script(Single037, Compare037, Main037),
     Script(Single038, Compare038, Main038), Script(Single039, Compare039, Main039),
     Script(Single040, Compare040, Main040), Script(Single043, Compare043, Main043),
     Script(Single044, Compare044, Main044), Script(Single045, Compare045, Main045),
     Script(Single078, Compare078, Main078), Script(Single079, Compare079, Main079),
     Script(Single080, Compare080, Main080), Script(Single081, Compare081, Main081),
     Script(Single082, Compare082, Main082), Script(Single083, Compare083, Main083),
     Script(Single086, Compare086, Main086), Script(Single090, Compare090, Main090),
     Script(Single091, Compare091, Main091), Script(Single092, Compare092, Main092),
     Script(Single093, Compare093, Main093), Script(Single095, Compare095, Main095),
     Script(Single096, Compare096, Main096), Script(Single101, Compare101, Main101),
     Script(Single102, Compare102, Main102), Script(Single105, Compare105, Main105),
     Script(Single109, Compare109, Main109)}
=============================================================================
