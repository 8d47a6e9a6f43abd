--------------------------- MODULE ExamplesKittens ---------------------------
(*****************************************************************************)
(* The ThunderKittens examples, whose scripts are copies of each other up to *)
(* names.                                                                    *)
(*                                                                           *)
(* For each script: how --source builds and runs, how --compare measures     *)
(* and labels, and what main prints and returns.                             *)
(*****************************************************************************)
EXTENDS Scripts

\* example046_thunderkitten_all_gather_easy/nv
Single046 == Unannounced("exit 0", 900)
Compare046 == MeasuredTogether
Main046 == Kitten

\* example048_thunderkitten_all_reduce_easy/nv
Single048 == Unannounced("exit 0", 900)
Compare048 == MeasuredTogether
Main048 == Kitten

\* example049_thunderkitten_alltoall_easy/nv
Single049 == Unannounced("exit 0", 900)
Compare049 == MeasuredTogether
Main049 == Kitten

\* example050_thunderkitten_reduce_scatter_easy/nv
Single050 == Unannounced("exit 0", 900)
Compare050 == MeasuredTogether
Main050 == Kitten

\* example051_thunderkitten_ag_gemm_easy/nv
Single051 == Unannounced("exit 0", 900)
Compare051 == MeasuredTogether
Main051 == Kitten

\* example052_thunderkitten_ag_gemm_fp8_easy/nv
Single052 == Unannounced("exit 0", 900)
Compare052 == MeasuredTogether
Main052 == Kitten

\* example053_thunderkitten_gemm_ar_easy/nv
Single053 == Unannounced("exit 0", 900)
Compare053 == MeasuredTogether
Main053 == Kitten

\* example054_thunderkitten_gemm_rs_easy/nv
Single054 == Unannounced("exit 0", 900)
Compare054 == MeasuredTogether
Main054 == Kitten

\* example055_thunderkitten_gemm_rs_fp8_easy/nv
Single055 == Unannounced("exit 0", 900)
Compare055 == MeasuredTogether
Main055 == Kitten

\* example056_thunderkitten_moe_dispatch_gemm_easy/nv
Single056 == Unannounced("exit 0", 900)
Compare056 == MeasuredTogether
Main056 == Kitten

\* example057_thunderkitten_ring_attn_easy/nv
Single057 == Unannounced("exit 0", 900)
Compare057 == MeasuredTogether
Main057 == Kitten

\* example058_thunderkitten_ulysses_attn_easy/nv
Single058 == Unannounced("exit 0", 900)
Compare058 == MeasuredTogether
Main058 == Kitten

\* example059_thunderkitten_all_gather_hard/nv
Single059 == Unannounced("exit 0", 900)
Compare059 == MeasuredTogether
Main059 == Kitten

\* example060_thunderkitten_all_reduce_hard/nv
Single060 == Unannounced("exit 0", 900)
Compare060 == MeasuredTogether
Main060 == Kitten

\* example061_thunderkitten_alltoall_hard/nv
Single061 == Unannounced("exit 0", 900)
Compare061 == MeasuredTogether
Main061 == Kitten

\* example062_thunderkitten_reduce_scatter_hard/nv
Single062 == Unannounced("exit 0", 900)
Compare062 == MeasuredTogether
Main062 == Kitten

\* example063_thunderkitten_ag_gemm_hard/nv
Single063 == Unannounced("exit 0", 900)
Compare063 == MeasuredTogether
Main063 == Kitten

\* example064_thunderkitten_ag_gemm_fp8_hard/nv
Single064 == Unannounced("exit 0", 900)
Compare064 == MeasuredTogether
Main064 == Kitten

\* example065_thunderkitten_gemm_ar_hard/nv
Single065 == Unannounced("exit 0", 900)
Compare065 == MeasuredTogether
Main065 == Kitten

\* example066_thunderkitten_gemm_rs_hard/nv
Single066 == Unannounced("exit 0", 900)
Compare066 == MeasuredTogether
Main066 == Kitten

\* example067_thunderkitten_gemm_rs_fp8_hard/nv
Single067 == Unannounced("exit 0", 900)
Compare067 == MeasuredTogether
Main067 == Kitten

\* example068_thunderkitten_moe_dispatch_gemm_hard/nv
Single068 == Unannounced("exit 0", 900)
Compare068 == MeasuredTogether
Main068 == Kitten

\* example069_thunderkitten_ring_attn_hard/nv
Single069 == Unannounced("exit 0", 900)
Compare069 == MeasuredTogether
Main069 == Kitten

\* example070_thunderkitten_ulysses_attn_hard/nv
Single070 == Unannounced("exit 0", 900)
Compare070 == MeasuredTogether
Main070 == Kitten

KittensScripts ==
    {Script(Single046, Compare046, Main046), Script(Single048, Compare048, Main048),
     Script(Single049, Compare049, Main049), Script(Single050, Compare050, Main050),
     Script(Single051, Compare051, Main051), Script(Single052, Compare052, Main052),
     Script(Single053, Compare053, Main053), Script(Single054, Compare054, Main054),
     Script(Single055, Compare055, Main055), Script(Single056, Compare056, Main056),
     Script(Single057, Compare057, Main057), Script(Single058, Compare058, Main058),
     Script(Single059, Compare059, Main059), Script(Single060, Compare060, Main060),
     Script(Single061, Compare061, Main061), Script(Single062, Compare062, Main062),
     Script(Single063, Compare063, Main063), Script(Single064, Compare064, Main064),
     Script(Single065, Compare065, Main065), Script(Single066, Compare066, Main066),
     Script(Single067, Compare067, Main067), Script(Single068, Compare068, Main068),
     Script(Single069, Compare069, Main069), Script(Single070, Compare070, Main070)}
=============================================================================
