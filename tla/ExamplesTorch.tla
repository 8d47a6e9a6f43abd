---------------------------- MODULE ExamplesTorch ----------------------------
(*****************************************************************************)
(* torch.distributed and vLLM: the source is a Python program and there is no *)
(* compiler to announce anything.                                            *)
(*                                                                           *)
(* For each script: how --source builds and runs, how --compare measures     *)
(* and labels, and what main prints and returns.                             *)
(*****************************************************************************)
EXTENDS Scripts

\* example020_torch_distributed_nccl_alltoall
Single020 == Interpreted(600)
Compare020 == MeasuredTogether
Main020 == Forwarding

\* example021_torch_distributed_nccl_allgather
Single021 == Interpreted(600)
Compare021 == MeasuredTogether
Main021 == Forwarding

\* example022_torch_distributed_nccl_allreduce
Single022 == Interpreted(600)
Compare022 == MeasuredTogether
Main022 == Forwarding

\* example023_torch_distributed_nccl_reduce_scatter
Single023 == Interpreted(600)
Compare023 == MeasuredTogether
Main023 == Forwarding

\* example084_vllm_agrs_moe_all_to_all/nv
Single084 == Interpreted(900)
Compare084 == MeasuredTogether
Main084 == Forwarding

\* example085_vllm_pp_send_recv_tensor_dict/nv
Single085 == Interpreted(900)
Compare085 == MeasuredTogether
Main085 == Forwarding

\* example087_vllm_nccl_weight_transfer_engine/nv
Single087 == Interpreted(900)
Compare087 == MeasuredTogether
Main087 == Forwarding

\* example088_vllm_ipc_weight_transfer_engine/nv
Single088 == Interpreted(900)
Compare088 == MeasuredTogether
Main088 == Forwarding

\* example089_vllm_eplb_expert_rebalance/nv
Single089 == Interpreted(900)
Compare089 == MeasuredTogether
Main089 == Forwarding

\* example097_vllm_custom_all_reduce/nv
Single097 == Interpreted(900)
Compare097 == MeasuredTogether
Main097 == Forwarding

\* example098_vllm_symm_mem_all_reduce/nv
Single098 == Interpreted(900)
Compare098 == MeasuredTogether
Main098 == Forwarding

\* example099_vllm_pynccl_all_reduce/nv
Single099 == Interpreted(900)
Compare099 == MeasuredTogether
Main099 == Forwarding

\* example100_vllm_shm_broadcast_object/nv
Single100 == Interpreted(900)
Compare100 == MeasuredTogether
Main100 == Forwarding

TorchScripts ==
    {Script(Single020, Compare020, Main020), Script(Single021, Compare021, Main021),
     Script(Single022, Compare022, Main022), Script(Single023, Compare023, Main023),
     Script(Single084, Compare084, Main084), Script(Single085, Compare085, Main085),
     Script(Single087, Compare087, Main087), Script(Single088, Compare088, Main088),
     Script(Single089, Compare089, Main089), Script(Single097, Compare097, Main097),
     Script(Single098, Compare098, Main098), Script(Single099, Compare099, Main099),
     Script(Single100, Compare100, Main100)}
=============================================================================
