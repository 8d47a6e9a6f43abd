------------------------------ MODULE Examples ------------------------------
(***************************************************************************)
(* All 103 scripts.                                                        *)
(***************************************************************************)
EXTENDS ExamplesRdma, ExamplesGpu, ExamplesLibraries, ExamplesKittens, ExamplesTorch

AllScripts ==
    RdmaScripts \cup GpuScripts \cup LibrariesScripts \cup KittensScripts \cup TorchScripts

\* How they go about --source and --compare; scripts that agree count once.
AllSourceModes == {s.source : s \in AllScripts}
AllCompareModes == {s.compare : s \in AllScripts}
=============================================================================
