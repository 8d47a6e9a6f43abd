----------------------------- MODULE ExamplesGpu -----------------------------
(*****************************************************************************)
(* Examples of one process on one or two GPUs, of NVSHMEM and of DeepEP's own *)
(* kernels.                                                                  *)
(*                                                                           *)
(* For each script: how --source builds and runs, how --compare measures     *)
(* and labels, and what main prints and returns.                             *)
(*****************************************************************************)
EXTENDS Scripts

\* example001_gpu_comm_single_process/amd
Single001amd == Announced("exit 0", 600)
Compare001amd == MeasuredTogether
Main001amd == Forwarding

\* example001_gpu_comm_single_process/nv
Single001nv == Announced("exit 0", 600)
Compare001nv == MeasuredTogether
Main001nv == Forwarding

\* example003_fifo_device2host/amd_nv
Single003 ==
    [Announced("exit 0", 60) EXCEPT !.compiler = "hidden", !.mourns = {"Compilation failed"}]
Compare003 == Fifo
Main003 == Forwarding

\* example005_fifo_host2device/amd_nv
Single005 ==
    [Announced("exit 0", 60) EXCEPT !.compiler = "hidden", !.mourns = {"Compilation failed"}]
Compare005 == Fifo
Main005 == Forwarding

\* example010_list_gpu_attributes/nv
Single010 == [Unannounced("exit 0", NoLimit) EXCEPT !.compiler = "hidden"]
Compare010 == [Unmeasured EXCEPT !.labels = SpeedLabels, !.labelled = "both"]
Main010 == [shows |-> "nothing", errors |-> "hidden", fails |-> "never"]

\* example012_gpu_ipc_comm_with_NVLink/nv
Single012 == Announced("exit 0", 60)
Compare012 == MeasuredTogether
Main012 == Forwarding

\* example017_intranode_gpu_barrier/nv
Single017 == Announced("exit 0", 600)
Compare017 == MeasuredTogether
Main017 == Forwarding

\* example032_nvshmem_atomic_fetch_inc/nv
Single032 == Announced("exit 0", 300)
Compare032 == MeasuredTogether
Main032 == Forwarding

\* example033_nvshmem_put_and_signal/nv
Single033 == Announced("exit 0", 600)
Compare033 == MeasuredTogether
Main033 == Forwarding

\* example034_nvshmem_broadcast/nv
Single034 == Announced("exit 0", 300)
Compare034 == MeasuredTogether
Main034 == Forwarding

\* example035_nvshmem_tiled_produce_consume/nv
Single035 == Announced("exit 0", 600)
Compare035 == MeasuredTogether
Main035 == Forwarding

\* example042_deepep_dispatch_layout/nv
Single042 == Announced("a report", 900)
Compare042 == MeasuredTogether
Main042 == Forwarding

\* example047_deepep_intranode_notify_dispatch/nv
Single047 == Announced("a report", 900)
Compare047 == MeasuredTogether
Main047 == Forwarding

\* example072_GPU_barrier_within_CTA/nv
Single072 == Announced("exit 0", 600)
Compare072 == MeasuredTogether
Main072 == Forwarding

\* example073_GPU_p2p_pingpong_latency/nv
Single073 == Announced("exit 0", 600)
Compare073 == MeasuredTogether
Main073 == Forwarding

\* example074_GPU_p2p_d2d_bandwidth/nv
Single074 == Announced("exit 0", 600)
Compare074 == MeasuredTogether
Main074 == Forwarding

\* example075_GPU_d2h_copy_bandwidth/nv
Single075 == Announced("exit 0", 600)
Compare075 == MeasuredTogether
Main075 == Forwarding

\* example076_GPU_globaltimer_nanosleep/nv
Single076 == Announced("exit 0", 600)
Compare076 == MeasuredTogether
Main076 == Forwarding

\* example077_GPU_vectorized_copy_widths/nv
Single077 == Announced("exit 0", 600)
Compare077 == [MeasuredTogether EXCEPT !.breaks = "measured"]
Main077 == Forwarding

\* example094_TMA_bulk_copy_gmem_to_smem/nv
Single094 == Announced("exit 0", 600)
Compare094 == [MeasuredTogether EXCEPT !.breaks = "positive"]
Main094 == Forwarding

GpuScripts ==
    {Script(Single001amd, Compare001amd, Main001amd), Script(Single001nv, Compare001nv, Main001nv),
     Script(Single003, Compare003, Main003), Script(Single005, Compare005, Main005),
     Script(Single010, Compare010, Main010), Script(Single012, Compare012, Main012),
     Script(Single017, Compare017, Main017), Script(Single032, Compare032, Main032),
     Script(Single033, Compare033, Main033), Script(Single034, Compare034, Main034),
     Script(Single035, Compare035, Main035), Script(Single042, Compare042, Main042),
     Script(Single047, Compare047, Main047), Script(Single072, Compare072, Main072),
     Script(Single073, Compare073, Main073), Script(Single074, Compare074, Main074),
     Script(Single075, Compare075, Main075), Script(Single076, Compare076, Main076),
     Script(Single077, Compare077, Main077), Script(Single094, Compare094, Main094)}
=============================================================================
