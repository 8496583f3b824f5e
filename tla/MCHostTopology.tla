--------------------------- MODULE MCHostTopology ---------------------------
(***************************************************************************)
(* Instances of HostTopology for TLC.                                      *)
(***************************************************************************)
EXTENDS HostTopology

F(kind, socket, domain, name) ==
  [kind |-> kind, socket |-> socket, domain |-> domain, name |-> name]

\* Two packages with domains.
TwoPackages ==
  {F("socket", 0, 0, "package-0"), F("domain", 0, 0, "core"), F("domain", 0, 1, "dram"),
   F("socket", 1, 0, "package-1"), F("domain", 1, 0, "core")}

\* A package that is memory-mapped too.
Mapped ==
  {F("socket", 0, 0, "package-0"), F("domain", 0, 0, "core"), F("domain", 0, 1, "dram"),
   F("mmio", 0, 0, "package-0"), F("mmio_domain", 0, 0, "dram")}

\* A laptop: one package, psys, and an mmio domain that has lost its name.
WithPsys ==
  {F("socket", 0, 0, "package-0"), F("domain", 0, 0, "core"), F("socket", 1, 0, "psys"),
   F("mmio_domain", 0, 0, Unreadable)}

\* No domains: the sockets are taken.
NoDomains == {F("socket", 0, 0, "package-0"), F("socket", 1, 0, "psys")}

\* What the qemu exporter of the host makes for a virtual machine.
Guest == {F("socket", 0, 0, Unreadable), F("domain", 0, 0, Unreadable)}

\* A domain of another kind, and nothing at all.
Unsupported == {F("socket", 0, 0, "package-0"), F("domain", 0, 0, "other")}
Nothing     == {}

AllDirectories == {TwoPackages, Mapped, WithPsys, NoDomains, Guest, Unsupported, Nothing}

PhysicalIds == [c \in Core |-> IF c = "cpu1" THEN 1 ELSE 0]
=============================================================================
