---------------------------- MODULE SetupProofs ----------------------------
(***************************************************************************)
(* The folder an evaluation starts from, for every layout an example may   *)
(* have, every host and every way its probes fail.                         *)
(***************************************************************************)
EXTENDS Setup, SequenceTheorems, TLAPS

Platforms == [vendor : {"AMD", "NVIDIA", "None"}, net : {"EFA", "Ethernet", "IB", "RoCE"}]

\* A file that was found is one there is.
IsFile(f, found) == f.folder = dir /\ f.suffix \in found

\* The values of the variables.
TypeInv ==
    /\ pc \in {"detect", "subdir", "empty", "script", "ref", "ready", "refused"}
    /\ host \in Hosts /\ layout \in Layouts /\ no_ref \in BOOLEAN
    /\ platform \in Platforms

\* What the probes said is settled before anything is searched for.
PlatformInv == pc # "detect" => platform \in Detected(host)

\* The three searches go to the one folder.
DirInv == pc \notin {"detect", "subdir"} => dir = SearchDir(platform)

\* What was found is of that folder, at most one template and at most one reference.
EmptyInv ==
    /\ pc \in {"detect", "subdir", "empty"} => empty = {}
    /\ \A e, f \in empty : e = f
    /\ \A e \in empty : IsFile(e, layout[dir].empty)

RefInv ==
    /\ pc # "ready" => ref = {}
    /\ \A f \in ref : IsFile(f, layout[dir].ref)
    /\ RefFits

\* Nothing but a folder with a script is searched for a reference.
ScriptInv == pc \in {"ref", "ready"} => layout[dir].script

IInv == TypeInv /\ PlatformInv /\ DirInv /\ EmptyInv /\ RefInv /\ ScriptInv

-----------------------------------------------------------------------------
(* The list of folders. *)

\* Putting two lists of folders together keeps each in its order.
LEMMA Joined ==
    ASSUME NEW s \in Seq(Variants), NEW t \in Seq(Variants)
    PROVE  /\ s \o t \in Seq(Variants) /\ Len(s \o t) = Len(s) + Len(t)
           /\ \A i \in 1..Len(s) : (s \o t)[i] = s[i]
           /\ \A i \in 1..Len(t) : (s \o t)[Len(s) + i] = t[i]
<1> QED
    BY ConcatProperties

LEMMA OneLong ==
    ASSUME NEW f \in Variants
    PROVE  <<f>> \in Seq(Variants) /\ Len(<<f>>) = 1 /\ <<f>>[1] = f
<1> QED
    OBVIOUS

LEMMA TwoLong ==
    ASSUME NEW f \in Variants, NEW g \in Variants
    PROVE  <<f, g>> \in Seq(Variants) /\ Len(<<f, g>>) = 2 /\ <<f, g>>[1] = f /\ <<f, g>>[2] = g
<1> QED
    OBVIOUS

LEMMA NoneLong == <<>> \in Seq(Variants) /\ Len(<<>>) = 0
<1> QED
    OBVIOUS

LEMMA VendorDirsAre ==
    ASSUME NEW p \in Platforms
    PROVE  /\ VendorDirs(p) \in Seq(Variants) /\ Len(VendorDirs(p)) \in 0..1
           /\ p.vendor = "AMD" => Len(VendorDirs(p)) = 1 /\ VendorDirs(p)[1] = "amd"
           /\ p.vendor = "NVIDIA" => Len(VendorDirs(p)) = 1 /\ VendorDirs(p)[1] = "nv"
           /\ p.vendor = "None" => Len(VendorDirs(p)) = 0
<1>1. CASE p.vendor = "AMD"
    <2>1. VendorDirs(p) = <<"amd">> /\ "amd" \in Variants
        BY <1>1 DEF VendorDirs, Variants
    <2> QED
        BY <1>1, <2>1, OneLong
<1>2. CASE p.vendor = "NVIDIA"
    <2>1. VendorDirs(p) = <<"nv">> /\ "nv" \in Variants
        BY <1>2 DEF VendorDirs, Variants
    <2> QED
        BY <1>2, <2>1, OneLong
<1>3. CASE p.vendor = "None"
    <2>1. VendorDirs(p) = <<>>
        BY <1>3 DEF VendorDirs
    <2> QED
        BY <1>3, <2>1, NoneLong
<1> QED
    BY <1>1, <1>2, <1>3 DEF Platforms

LEMMA NetworkDirsAre ==
    ASSUME NEW p \in Platforms
    PROVE  /\ NetworkDirs(p) \in Seq(Variants) /\ Len(NetworkDirs(p)) \in 0..2
           /\ \A i \in 1..Len(NetworkDirs(p)) : NetworkDirs(p)[i] \in {"efa", "ib", "roce"}
           /\ p.net \in {"IB", "RoCE"} =>
                 Len(NetworkDirs(p)) = 2 /\ NetworkDirs(p)[1] = "ib" /\ NetworkDirs(p)[2] = "roce"
<1>1. CASE p.net = "EFA"
    <2>1. NetworkDirs(p) = <<"efa">> /\ "efa" \in Variants
        BY <1>1 DEF NetworkDirs, Variants
    <2>2. /\ NetworkDirs(p) \in Seq(Variants) /\ Len(NetworkDirs(p)) = 1
          /\ NetworkDirs(p)[1] = "efa"
        BY <2>1, OneLong
    <2> QED
        BY <1>1, <2>2
<1>2. CASE p.net \in {"IB", "RoCE"}
    <2>1. NetworkDirs(p) = <<"ib", "roce">> /\ "ib" \in Variants /\ "roce" \in Variants
        BY <1>2 DEF NetworkDirs, Variants
    <2>2. /\ NetworkDirs(p) \in Seq(Variants) /\ Len(NetworkDirs(p)) = 2
          /\ NetworkDirs(p)[1] = "ib" /\ NetworkDirs(p)[2] = "roce"
        BY <2>1, TwoLong
    <2> QED
        BY <2>2
<1>3. CASE p.net = "Ethernet"
    <2>1. NetworkDirs(p) = <<>>
        BY <1>3 DEF NetworkDirs
    <2> QED
        BY <1>3, <2>1, NoneLong
<1> QED
    BY <1>1, <1>2, <1>3 DEF Platforms

\* amd_nv is asked for first, the vendor's folder next, the network's last.
LEMMA CandidatesAre ==
    ASSUME NEW p \in Platforms
    PROVE  /\ Candidates(p) \in Seq(Variants) /\ Len(Candidates(p)) \in 1..4
           /\ Candidates(p)[1] = "amd_nv"
           /\ p.vendor = "AMD" => Len(Candidates(p)) >= 2 /\ Candidates(p)[2] = "amd"
           /\ p.vendor = "NVIDIA" => Len(Candidates(p)) >= 2 /\ Candidates(p)[2] = "nv"
           /\ \A i \in 1..Len(Candidates(p)) :
                 /\ Candidates(p)[i] = "amd" => p.vendor = "AMD"
                 /\ Candidates(p)[i] = "nv" => p.vendor = "NVIDIA"
           /\ p.net \in {"IB", "RoCE"} =>
                 \A f \in {"ib", "roce"} : \E i \in 1..Len(Candidates(p)) : Candidates(p)[i] = f
<1> DEFINE v == VendorDirs(p)
           n == NetworkDirs(p)
           first == <<"amd_nv">>
           two == first \o v
<1>1. first \in Seq(Variants) /\ Len(first) = 1 /\ first[1] = "amd_nv"
    BY DEF Variants
<1>2. /\ v \in Seq(Variants) /\ Len(v) \in 0..1
      /\ p.vendor = "AMD" => Len(v) = 1 /\ v[1] = "amd"
      /\ p.vendor = "NVIDIA" => Len(v) = 1 /\ v[1] = "nv"
      /\ p.vendor = "None" => Len(v) = 0
    BY VendorDirsAre
<1>3. /\ n \in Seq(Variants) /\ Len(n) \in 0..2
      /\ \A i \in 1..Len(n) : n[i] \in {"efa", "ib", "roce"}
      /\ p.net \in {"IB", "RoCE"} => Len(n) = 2 /\ n[1] = "ib" /\ n[2] = "roce"
    BY NetworkDirsAre
<1> HIDE DEF v, n, first
<1>4. PICK a \in 0..1 : Len(v) = a
    BY <1>2
<1>5. PICK b \in 0..2 : Len(n) = b
    BY <1>3
<1>6. /\ two \in Seq(Variants) /\ Len(two) = 1 + a
      /\ two[1] = "amd_nv" /\ (a = 1 => two[2] = v[1])
    <2>1. /\ two \in Seq(Variants) /\ Len(two) = Len(first) + Len(v)
          /\ \A i \in 1..Len(first) : two[i] = first[i]
          /\ \A i \in 1..Len(v) : two[Len(first) + i] = v[i]
        BY <1>1, <1>2, Joined
    <2>2. /\ Len(two) = 1 + a
          /\ \A i \in 1..1 : two[i] = first[i]
          /\ \A i \in 1..a : two[1 + i] = v[i]
        BY <1>1, <1>4, <2>1
    <2> QED
        BY <1>1, <2>1, <2>2
<1> HIDE DEF two
<1>7. /\ Candidates(p) \in Seq(Variants) /\ Len(Candidates(p)) = 1 + a + b
      /\ \A i \in 1..(1 + a) : Candidates(p)[i] = two[i]
      /\ \A i \in 1..b : Candidates(p)[1 + a + i] = n[i]
    <2>1. /\ two \o n \in Seq(Variants) /\ Len(two \o n) = Len(two) + Len(n)
          /\ \A i \in 1..Len(two) : (two \o n)[i] = two[i]
          /\ \A i \in 1..Len(n) : (two \o n)[Len(two) + i] = n[i]
        BY <1>3, <1>6, Joined
    <2>2. Candidates(p) = two \o n
        BY DEF Candidates, two, v, n, first
    <2> QED
        BY <2>1, <2>2, <1>5, <1>6
<1>8. 1 + a + b \in 1..4 /\ Candidates(p)[1] = "amd_nv"
    BY <1>6, <1>7
<1>9. a = 1 => 1 + a + b >= 2 /\ Candidates(p)[2] = v[1]
    BY <1>6, <1>7
<1>10. ASSUME NEW i \in 1..(1 + a + b)
       PROVE  \/ Candidates(p)[i] \in {"amd_nv", "efa", "ib", "roce"}
              \/ a = 1 /\ Candidates(p)[i] = v[1]
    <2>1. CASE i = 1
        BY <1>8, <2>1
    <2>2. CASE i = 2 /\ a = 1
        BY <1>9, <2>2
    <2>3. CASE i # 1 /\ ~(i = 2 /\ a = 1)
        <3>1. i - (1 + a) \in 1..b /\ i = 1 + a + (i - (1 + a))
            BY <2>3
        <3>2. Candidates(p)[i] = n[i - (1 + a)]
            BY <3>1, <1>7
        <3> QED
            BY <3>1, <3>2, <1>3, <1>5
    <2> QED
        BY <2>1, <2>2, <2>3
<1>11. ASSUME p.net \in {"IB", "RoCE"}, NEW f \in {"ib", "roce"}
       PROVE  \E i \in 1..(1 + a + b) : Candidates(p)[i] = f
    <2>1. b = 2 /\ n[1] = "ib" /\ n[2] = "roce"
        BY <1>3, <1>5, <1>11
    <2>2. 1 + a + 1 \in 1..(1 + a + b) /\ 1 + a + 2 \in 1..(1 + a + b)
        BY <2>1
    <2>3. Candidates(p)[1 + a + 1] = "ib" /\ Candidates(p)[1 + a + 2] = "roce"
        BY <2>1, <1>7
    <2> QED
        BY <2>2, <2>3
<1>12. p.vendor \in {"AMD", "NVIDIA", "None"}
    BY DEF Platforms
<1>13. /\ p.vendor = "AMD" => a = 1 /\ v[1] = "amd"
       /\ p.vendor = "NVIDIA" => a = 1 /\ v[1] = "nv"
       /\ p.vendor = "None" => a = 0
    BY <1>2, <1>4
<1> QED
    BY <1>7, <1>8, <1>9, <1>10, <1>11, <1>12, <1>13

-----------------------------------------------------------------------------
(* The search. *)

\* One of at most four places is the first.
LEMMA FirstOfFour ==
    ASSUME NEW S \in SUBSET (1..4), S # {}
    PROVE  Min(S) \in S /\ \A j \in S : Min(S) <= j
<1>1. \E i \in S : \A j \in S : i <= j
    <2>1. CASE 1 \in S
        BY <2>1
    <2>2. CASE 1 \notin S /\ 2 \in S
        BY <2>2
    <2>3. CASE 1 \notin S /\ 2 \notin S /\ 3 \in S
        BY <2>3
    <2>4. CASE 1 \notin S /\ 2 \notin S /\ 3 \notin S
        <3>1. \A i \in S : i = 4
            BY <2>4
        <3>2. 4 \in S
            BY <3>1
        <3> QED
            BY <3>1, <3>2
    <2> QED
        BY <2>1, <2>2, <2>3, <2>4
<1> QED
    BY <1>1 DEF Min

LEMMA SearchFindsFirst ==
    ASSUME NEW p \in Platforms, Found(p) # {}
    PROVE  \E i \in 1..Len(Candidates(p)) :
              /\ SearchDir(p) = Candidates(p)[i] /\ layout[Candidates(p)[i]].script
              /\ \A j \in 1..Len(Candidates(p)) : layout[Candidates(p)[j]].script => i <= j
<1>1. DOMAIN Candidates(p) = 1..Len(Candidates(p)) /\ Len(Candidates(p)) \in 1..4
    BY CandidatesAre
<1>2. Found(p) \in SUBSET (1..4)
    BY <1>1 DEF Found
<1>3. Min(Found(p)) \in Found(p) /\ \A j \in Found(p) : Min(Found(p)) <= j
    BY <1>2, FirstOfFour
<1>4. SearchDir(p) = Candidates(p)[Min(Found(p))]
    BY DEF SearchDir
<1> QED
    BY <1>1, <1>3, <1>4 DEF Found

LEMMA SearchFindsNone ==
    ASSUME NEW p \in Platforms, Found(p) = {}
    PROVE  SearchDir(p) = Flat
           /\ \A j \in 1..Len(Candidates(p)) : ~layout[Candidates(p)[j]].script
<1>1. DOMAIN Candidates(p) = 1..Len(Candidates(p))
    BY CandidatesAre
<1> QED
    BY <1>1 DEF Found, SearchDir

LEMMA FlatIsNoVariant == Flat \notin Variants
<1> QED
    BY DEF Flat, Variants

\* The vendor's own variant is found, unless there is one for both; and never the
\* other vendor's.
LEMMA SearchMindsVendor ==
    ASSUME NEW p \in Platforms
    PROVE  /\ p.vendor = "AMD" /\ layout["amd"].script => SearchDir(p) \in {"amd_nv", "amd"}
           /\ p.vendor = "NVIDIA" /\ layout["nv"].script => SearchDir(p) \in {"amd_nv", "nv"}
           /\ SearchDir(p) = "amd" => p.vendor = "AMD"
           /\ SearchDir(p) = "nv" => p.vendor = "NVIDIA"
<1>1. CASE Found(p) = {}
    <2>1. 1 \in 1..Len(Candidates(p)) /\ (Len(Candidates(p)) >= 2 => 2 \in 1..Len(Candidates(p)))
        BY CandidatesAre
    <2>2. SearchDir(p) # "amd" /\ SearchDir(p) # "nv"
        BY <1>1, SearchFindsNone DEF Flat
    <2> QED
        BY <1>1, <2>1, <2>2, SearchFindsNone, CandidatesAre
<1>2. CASE Found(p) # {}
    <2>1. PICK i \in 1..Len(Candidates(p)) :
              /\ SearchDir(p) = Candidates(p)[i]
              /\ \A j \in 1..Len(Candidates(p)) : layout[Candidates(p)[j]].script => i <= j
        BY <1>2, SearchFindsFirst
    <2>2. ASSUME NEW f \in {"amd", "nv"}, layout[f].script,
                 Len(Candidates(p)) >= 2, Candidates(p)[2] = f
          PROVE  SearchDir(p) \in {"amd_nv", f}
        <3>1. i <= 2
            BY <2>1, <2>2
        <3>2. i = 1 \/ i = 2
            BY <2>1, <3>1
        <3> QED
            BY <3>2, <2>1, <2>2, CandidatesAre
    <2> QED
        BY <2>1, <2>2, CandidatesAre
<1> QED
    BY <1>1, <1>2

\* Either RDMA network finds the variant for either.
LEMMA SearchFindsRdma ==
    ASSUME NEW p \in Platforms, p.net \in {"IB", "RoCE"}, layout["ib"].script \/ layout["roce"].script
    PROVE  SearchDir(p) # Flat
<1>1. \E i \in 1..Len(Candidates(p)) : layout[Candidates(p)[i]].script
    BY CandidatesAre
<1>2. Found(p) # {}
    BY <1>1, SearchFindsNone
<1>3. PICK i \in 1..Len(Candidates(p)) : SearchDir(p) = Candidates(p)[i]
    BY <1>2, SearchFindsFirst
<1>4. Candidates(p)[i] \in Variants
    BY CandidatesAre, ElementOfSeq
<1> QED
    BY <1>3, <1>4, FlatIsNoVariant

-----------------------------------------------------------------------------
(* The invariant. *)

LEMMA DetectedIsPlatform ==
    ASSUME NEW p \in Detected(host)
    PROVE  p \in Platforms /\ p.vendor = Vendor(host)
<1> QED
    BY DEF Detected, Vendor, Platforms

\* Without an EFA adapter or a libfabric that speaks of one no host is taken for EFA.
LEMMA NoEfaSeen ==
    ASSUME NEW p \in Detected(host),
           ~host.fi_info, \A a \in host.adapters : a.name # "efa"
    PROVE  p.net # "EFA"
<1>1. PICK fi \in {FALSE, host.fi_info}, listed \in {{}, host.adapters}, stat \in SUBSET host.adapters :
          p.net = NetworkType(fi, listed, stat)
    BY DEF Detected
<1>2. ~fi
    BY <1>1
<1>3. "EFA" \notin {DeviceType(a, stat) : a \in listed}
    BY <1>1 DEF DeviceType
<1>4. NetworkType(fi, listed, stat) # "EFA"
    BY <1>2, <1>3 DEF NetworkType
<1> QED
    BY <1>1, <1>4

LEMMA InitIInv == Init => IInv
<1> SUFFICES ASSUME Init PROVE IInv
    OBVIOUS
<1>1. TypeInv
    BY DEF Init, TypeInv, Platforms
<1> QED
    BY <1>1 DEF Init, IInv, PlatformInv, DirInv, EmptyInv, RefInv, ScriptInv, RefFits

\* The one reference that is taken.
LEMMA RefStep ==
    ASSUME IInv, FindRef
    PROVE  IInv'
<1>1. /\ pc = "ref" /\ pc' = "ready" /\ dir = SearchDir(platform) /\ SearchDir(platform)' = dir'
      /\ UNCHANGED <<host, layout, no_ref, platform, dir, empty>>
    BY DEF FindRef, IInv, DirInv, SearchDir, Found, Candidates, VendorDirs, NetworkDirs
<1>2. ref' \in RefIn(dir)
    BY <1>1 DEF FindRef
<1>3. CASE ref' = {}
    BY <1>1, <1>3
    DEF IInv, TypeInv, PlatformInv, DirInv, EmptyInv, RefInv, ScriptInv, RefFits, IsFile
<1>4. CASE ref' # {}
    <2> DEFINE files == Files(dir, layout[dir].ref)
               fitting == {f \in files : \E e \in empty : f.suffix = e.suffix}
    <2>1. PICK f \in Preferred(files) : ref' = {f}
        BY <1>2, <1>4 DEF RefIn
    <2>2. f \in files /\ (fitting # {} => f \in fitting)
        BY <2>1 DEF Preferred
    <2>3. IsFile(f, layout[dir].ref)
        BY <2>2 DEF Files, IsFile
    <2>4. ASSUME NEW e \in empty, f.suffix # e.suffix, e.suffix \in layout[dir].ref
          PROVE  FALSE
        <3>1. [folder |-> dir, suffix |-> e.suffix] \in fitting
            BY <2>4 DEF Files
        <3>2. PICK g \in empty : f.suffix = g.suffix
            BY <2>2, <3>1
        <3> QED
            BY <2>4, <3>2 DEF IInv, EmptyInv
    <2>5. RefInv'
        BY <1>1, <2>1, <2>3, <2>4 DEF RefInv, RefFits, IsFile
    <2> QED
        BY <1>1, <2>5 DEF IInv, TypeInv, PlatformInv, DirInv, EmptyInv, ScriptInv, IsFile
<1> QED
    BY <1>3, <1>4

LEMMA NextIInv == IInv /\ [Next]_vars => IInv'
<1> SUFFICES ASSUME IInv, [Next]_vars PROVE IInv'
    OBVIOUS
<1> USE DEF IInv, TypeInv, PlatformInv, DirInv, EmptyInv, RefInv, ScriptInv, RefFits, IsFile
<1>1. ASSUME layout' = layout, platform' = platform
      PROVE  SearchDir(platform)' = SearchDir(platform)
    BY <1>1 DEF SearchDir, Found
<1>2. CASE Detect
    <2>1. platform' \in Detected(host) /\ host' = host
        BY <1>2 DEF Detect
    <2>2. platform' \in Platforms
        BY <2>1, DetectedIsPlatform
    <2>3. platform' \in Detected(host')
        BY <2>1
    <2> QED
        BY <1>2, <2>2, <2>3 DEF Detect
<1>3. CASE Subdir
    BY <1>1, <1>3 DEF Subdir
<1>4. CASE FindEmpty
    <2>1. PICK f \in Files(dir, layout[dir].empty) : empty' = {f}
        BY <1>4 DEF FindEmpty
    <2>2. f.folder = dir /\ f.suffix \in layout[dir].empty
        BY DEF Files
    <2> QED
        BY <1>1, <1>4, <2>1, <2>2 DEF FindEmpty
<1>5. CASE NoEmpty
    BY <1>1, <1>5 DEF NoEmpty
<1>6. CASE PromptFails
    BY <1>1, <1>6 DEF PromptFails
<1>7. CASE FindScript
    BY <1>1, <1>7 DEF FindScript
<1>8. CASE FindRef
    BY <1>8, RefStep
<1>9. CASE Done \/ UNCHANGED vars
    BY <1>1, <1>9 DEF Done, vars
<1> QED
    BY <1>2, <1>3, <1>4, <1>5, <1>6, <1>7, <1>8, <1>9 DEF Next

\* The three searches agree on the folder, and what they find is of it.
THEOREM SearchesAgree == Spec => []IInv
<1> QED
    BY InitIInv, NextIInv, PTL DEF Spec

-----------------------------------------------------------------------------
(* What the rounds start from. *)

\* The template, the script and the reference are of one folder.
THEOREM StartsFromOneFolder == Spec => []OneFolder
<1>1. IInv => OneFolder
    BY DEF IInv, OneFolder, EmptyInv, RefInv, ScriptInv, IsFile
<1> QED
    BY <1>1, SearchesAgree, PTL

\* The host's own vendor's variant is evaluated where there is one, and the other
\* vendor's never.
THEOREM MindsTheVendor == Spec => []RightVendor
<1>1. ASSUME IInv PROVE RightVendor
    <2> SUFFICES ASSUME pc = "ready"
                 PROVE  /\ \A v \in {<<"AMD", "amd">>, <<"NVIDIA", "nv">>} :
                              platform.vendor = v[1] /\ layout[v[2]].script => dir \in {"amd_nv", v[2]}
                        /\ ~host.hipcc => dir # "amd"
                        /\ ~host.nvcc => dir # "nv"
        BY DEF RightVendor
    <2>1. dir = SearchDir(platform) /\ platform \in Platforms /\ platform.vendor = Vendor(host)
        BY <1>1, DetectedIsPlatform DEF IInv, TypeInv, DirInv, PlatformInv
    <2>2. /\ platform.vendor = "AMD" /\ layout["amd"].script => dir \in {"amd_nv", "amd"}
          /\ platform.vendor = "NVIDIA" /\ layout["nv"].script => dir \in {"amd_nv", "nv"}
        BY <2>1, SearchMindsVendor
    <2>3. ~host.hipcc => dir # "amd"
        BY <2>1, SearchMindsVendor DEF Vendor
    <2>4. ~host.nvcc => dir # "nv"
        BY <2>1, SearchMindsVendor DEF Vendor
    <2> QED
        BY <2>2, <2>3, <2>4
<1> QED
    BY <1>1, SearchesAgree, PTL

\* An example with a variant for either RDMA network is not lost on the other one.
THEOREM LosesNoRdma == Spec => []RdmaIsFound
<1>1. ASSUME IInv PROVE RdmaIsFound
    <2> SUFFICES ASSUME pc = "refused", platform.net # "Ethernet", ~host.fi_info,
                        \A a \in host.adapters : a.name # "efa",
                        layout["ib"].script \/ layout["roce"].script
                 PROVE  dir # Flat
        BY DEF RdmaIsFound
    <2>1. dir = SearchDir(platform) /\ platform \in Platforms /\ platform \in Detected(host)
        BY <1>1 DEF IInv, TypeInv, DirInv, PlatformInv
    <2>2. platform.net # "EFA"
        BY <2>1, NoEfaSeen
    <2>3. platform.net \in {"IB", "RoCE"}
        BY <2>1, <2>2 DEF Platforms
    <2> QED
        BY <2>1, <2>3, SearchFindsRdma
<1> QED
    BY <1>1, SearchesAgree, PTL

\* A reference for another template is taken only where there is none for this one.
THEOREM TakesTheFittingRef == Spec => []RefFits
<1>1. IInv => RefFits
    BY DEF IInv, RefInv
<1> QED
    BY <1>1, SearchesAgree, PTL

=============================================================================
