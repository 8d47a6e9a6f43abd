------------------------------- MODULE Setup -------------------------------
(***************************************************************************)
(* What an evaluation does before its first round: it finds out what host  *)
(* it runs on, which variant of the example that is, and the template, the *)
(* script and the reference of the variant.  Every probe is a command that *)
(* may fail or time out; each of the three searches works the folder out   *)
(* again from what the probes said.                                        *)
(***************************************************************************)
EXTENDS Naturals, Sequences, FiniteSetsExt

CONSTANTS
    Layouts,       \* examples: of each folder, whether it has a script, and its files
    Suffixes       \* what follows empty_ and ref_ in a file's name

Variants == {"amd_nv", "amd", "nv", "efa", "ib", "roce"}
Flat == "flat"
Folder == [script : BOOLEAN, empty : SUBSET Suffixes, ref : SUBSET Suffixes]

ASSUME LayoutsAssumption == Layouts \subseteq [Variants \cup {Flat} -> Folder]

Adapters == [name : {"efa", "mlx", "other"}, link : {"InfiniBand", "Ethernet"}]
Hosts == [hipcc : BOOLEAN, nvcc : BOOLEAN, fi_info : BOOLEAN, adapters : SUBSET Adapters]

VARIABLES
    pc,         \* the step of the evaluation
    host, layout, no_ref,
    platform,   \* what the probes said
    dir,        \* working_dir
    empty, ref  \* the files found: at most one each

vars == <<pc, host, layout, no_ref, platform, dir, empty, ref>>

Init ==
    /\ pc = "detect"
    /\ host \in Hosts /\ layout \in Layouts /\ no_ref \in BOOLEAN
    /\ platform = [vendor |-> "None", net |-> "Ethernet"]
    /\ dir = Flat /\ empty = {} /\ ref = {}

-----------------------------------------------------------------------------
(* detect_platform *)

\* The compiler on the path decides, whether there is a device or not.
Vendor(h) == IF h.hipcc THEN "AMD" ELSE IF h.nvcc THEN "NVIDIA" ELSE "None"

\* `stat' are the adapters that ibstat answers for.
DeviceType(a, stat) ==
    IF a.name = "efa" THEN "EFA"
    ELSE IF a.name = "other" /\ a \in stat /\ a.link = "Ethernet" THEN "RoCE"
    ELSE "IB"

NetworkType(fi, listed, stat) ==
    LET types == {DeviceType(a, stat) : a \in listed} IN
    IF fi \/ "EFA" \in types THEN "EFA"
    ELSE IF listed = {} THEN "Ethernet"
    ELSE IF "IB" \in types THEN "IB" ELSE "RoCE"

\* All that the probes of one host may say.
Detected(h) ==
    {p \in [vendor : {Vendor(h)}, net : {"EFA", "IB", "RoCE", "Ethernet"}] :
        \E fi \in {FALSE, h.fi_info}, listed \in {{}, h.adapters}, stat \in SUBSET h.adapters :
            p.net = NetworkType(fi, listed, stat)}

Detect ==
    /\ pc = "detect"
    /\ platform' \in Detected(host)
    /\ pc' = "subdir"
    /\ UNCHANGED <<host, layout, no_ref, dir, empty, ref>>

-----------------------------------------------------------------------------
(* The searches. *)

VendorDirs(p) == IF p.vendor = "AMD" THEN <<"amd">> ELSE IF p.vendor = "NVIDIA" THEN <<"nv">> ELSE <<>>
NetworkDirs(p) ==
    IF p.net = "EFA" THEN <<"efa">> ELSE IF p.net \in {"IB", "RoCE"} THEN <<"ib", "roce">> ELSE <<>>

\* Mutant: the network's folder first.
NetworkFirst(p) == <<"amd_nv">> \o NetworkDirs(p) \o VendorDirs(p)

\* Mutant: the folder of the network's own type only.
OwnNetworkOnly(p) ==
    <<"amd_nv">> \o VendorDirs(p)
    \o (IF p.net = "IB" THEN <<"ib">> ELSE IF p.net = "RoCE" THEN <<"roce">> ELSE NetworkDirs(p))

Candidates(p) == <<"amd_nv">> \o VendorDirs(p) \o NetworkDirs(p)

\* The candidates that are there, by their place in the list.
Found(p) == {i \in DOMAIN Candidates(p) : layout[Candidates(p)[i]].script}

\* get_platform_subdir takes the first; or it is the example's own folder
SearchDir(p) == IF Found(p) = {} THEN Flat ELSE Candidates(p)[Min(Found(p))]

Subdir ==
    /\ pc = "subdir"
    /\ dir' = SearchDir(platform)
    /\ pc' = "empty"
    /\ UNCHANGED <<host, layout, no_ref, platform, empty, ref>>

Files(folder, suffixes) == {[folder |-> folder, suffix |-> s] : s \in suffixes}

\* The first of those there are, in the order of the file system.
FindEmpty ==
    /\ pc = "empty"
    /\ \E f \in Files(SearchDir(platform), layout[SearchDir(platform)].empty) : empty' = {f}
    /\ pc' = "script"
    /\ UNCHANGED <<host, layout, no_ref, platform, dir, ref>>

NoEmpty ==
    /\ pc = "empty" /\ layout[SearchDir(platform)].empty = {}
    /\ pc' = "refused"
    /\ UNCHANGED <<host, layout, no_ref, platform, dir, empty, ref>>

\* The prompt cannot be made of the template.
PromptFails ==
    /\ pc = "script"
    /\ pc' = "refused"
    /\ UNCHANGED <<host, layout, no_ref, platform, dir, empty, ref>>

FindScript ==
    /\ pc = "script"
    /\ pc' = IF layout[dir].script THEN "ref" ELSE "refused"
    /\ UNCHANGED <<host, layout, no_ref, platform, dir, empty, ref>>

\* Mutant: any reference will do.
AnyRef(refs) == refs

\* The one named like the template, or any.
Preferred(refs) ==
    LET fitting == {f \in refs : \E e \in empty : f.suffix = e.suffix} IN
    IF fitting = {} THEN refs ELSE fitting

RefIn(folder) ==
    IF no_ref \/ layout[folder].ref = {} THEN {{}}
    ELSE {{f} : f \in Preferred(Files(folder, layout[folder].ref))}

\* Mutant: find_ref_file is not told the platform and detects it again.
FindRefDetecting ==
    /\ pc = "ref"
    /\ \E p \in Detected(host) : ref' \in RefIn(SearchDir(p))
    /\ pc' = "ready"
    /\ UNCHANGED <<host, layout, no_ref, platform, dir, empty>>

FindRef ==
    /\ pc = "ref"
    /\ ref' \in RefIn(SearchDir(platform))
    /\ pc' = "ready"
    /\ UNCHANGED <<host, layout, no_ref, platform, dir, empty>>

Done == pc \in {"ready", "refused"} /\ UNCHANGED vars

Next ==
    \/ Detect \/ Subdir \/ FindEmpty \/ NoEmpty \/ PromptFails \/ FindScript \/ FindRef \/ Done

Spec == Init /\ [][Next]_vars

-----------------------------------------------------------------------------
\* What the rounds start from is of one folder: the template, the script and the
\* reference, whatever the probes of the network said or failed to say.
OneFolder ==
    pc = "ready" => layout[dir].script /\ \A f \in empty \cup ref : f.folder = dir

\* An example split by vendor is evaluated in the vendor's own variant, also when a
\* folder named for the host's network is there; and a host with one vendor's
\* compiler never gets the other vendor's folder.
RightVendor ==
    pc = "ready" =>
        /\ \A v \in {<<"AMD", "amd">>, <<"NVIDIA", "nv">>} :
              platform.vendor = v[1] /\ layout[v[2]].script => dir \in {"amd_nv", v[2]}
        /\ ~host.hipcc => dir # "amd"
        /\ ~host.nvcc => dir # "nv"

\* A Mellanox adapter that runs Ethernet is taken for InfiniBand; an example that has
\* a variant for either network is not lost on it, nor on an ibstat that fails.
RdmaIsFound ==
    pc = "refused" /\ platform.net # "Ethernet" /\ ~host.fi_info
    /\ (\A a \in host.adapters : a.name # "efa") /\ (layout["ib"].script \/ layout["roce"].script)
        => dir # Flat

\* A reference for another template is taken only if the folder has none for this one.
RefFits ==
    pc = "ready" =>
        \A f \in ref, e \in empty : f.suffix # e.suffix => e.suffix \notin layout[dir].ref

=============================================================================
