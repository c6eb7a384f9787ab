----------------------------- MODULE MCBuilder -----------------------------
(* Instances of Builder for TLC: two architectures (1 for amd64, 2 for       *)
(* arm64), two options and two files, of which the sources have one.         *)
EXTENDS Builder

CONSTANTS bpf, bridge, Bpf, Bridge, fix, driver

MCCanon == (bpf :> Bpf) @@ (bridge :> Bridge)
MCDefconfig ==
  (1 :> (Bpf :> "n" @@ Bridge :> "m")) @@ (2 :> (Bpf :> "y" @@ Bridge :> "n"))

NoModules == [enable |-> <<>>, builtin |-> <<>>, disable |-> <<>>]
NoOptions == [enable |-> <<>>, disable |-> <<>>]

Kernelfile(from, modules, options, files, actions) ==
  [from |-> from, modules |-> modules, options |-> options, files |-> files,
   actions |-> actions]

\* Short forms of every kind, of which the actions overrule some on one architecture.
Layered == Kernelfile("git",
  [enable |-> <<bridge>>, builtin |-> <<bridge>>, disable |-> <<>>],
  [enable |-> <<>>, disable |-> <<bpf>>],
  <<AddFile(fix), DeleteFile(driver)>>,
  <<Group({2}, <<SetConfig(bridge, "n"), When({1}, DeleteConfig(bpf)), DeleteFile(fix)>>),
    List(<<When({1}, DeleteConfig(bridge)), AddFile(driver)>>)>>)

\* No sources; a short form of a module against one of an option, and a file
\* that is put in, taken away and put back.
Scratch == Kernelfile("scratch",
  [enable |-> <<>>, builtin |-> <<>>, disable |-> <<bridge>>],
  [enable |-> <<bridge>>, disable |-> <<>>],
  <<>>,
  <<List(<<AddFile(driver), SetConfig(bpf, "y"), DeleteFile(driver)>>),
    Group({1}, <<SetConfig(bpf, "m"), AddFile(driver)>>)>>)

\* A base that is an image, which is not implemented.
Based == Kernelfile("ref", NoModules, NoOptions, <<>>, <<>>)

\* The last lines of the example in README.md:139-148.
Bare == Kernelfile("git", NoModules, NoOptions, <<>>,
  <<Group({2}, <<SetConfig(bridge, "y")>>), Single(SetConfig(bpf, "m")),
    Single(DeleteConfig(bridge))>>)

MCDocuments == {Layered, Scratch, Based}
MCBareDocuments == {Bare}

MCRequests == {<<>>, <<2, 1>>, <<1, 1>>}
MCTagLists == {<<>>, <<"b", "a">>}
MCOneRequest == {<<1, 2>>}
MCNoTags == {<<>>}
=============================================================================
