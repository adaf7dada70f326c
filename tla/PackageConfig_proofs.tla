------------------------ MODULE PackageConfig_proofs ------------------------
(***************************************************************************)
(* Theorems about PackageConfig, for any names of processors, any systems  *)
(* and any requests: what each block of the scripts leaves behind is       *)
(* determined by what CMake knew before, and what is accepted although     *)
(* nothing is shipped for it is a mixture of system and architecture.      *)
(***************************************************************************)
EXTENDS PackageConfig, TLAPS

Blocks == {"version", "arch", "bits", "platform", "threads", "targets", "done"}
\* The blocks that follow those up to the given one.
AfterArch == {"bits", "platform", "threads", "targets", "done"}
AfterBits == AfterArch \ {"bits"}
AfterPlatform == AfterBits \ {"platform"}
AfterThreads == {"targets", "done"}

KnownNames == X86Names \union SparcNames
KnownSystems == {"windows", "linux", "sunos"}

\* What the variables are once their block has run.
ArchFound ==
  /\ env.names \intersect KnownNames # {}
  /\ arch = IF env.names \intersect X86Names # {} THEN "x86" ELSE "sparc"
BitsFound ==
  /\ Pointers # {0}
  /\ bits = IF 4 \in Pointers THEN 32 ELSE 64
PlatformFound == env.system \in KnownSystems /\ platform = env.system

\* What the caller has set and what is on the disk; on Windows it is not looked for.
ThreadLibsBefore == threadLibs = IF env.preset THEN "preset" ELSE NoLibs
ThreadLibsFound ==
  \/ env.preset /\ threadLibs = "preset"
  \/ ~env.preset /\ env.system = "windows" /\ threadLibs = NoLibs
  \/ /\ ~env.preset /\ env.system # "windows"
     /\ \/ "libc" \in env.threads /\ threadLibs = ""
        \/ env.threads \in {{"pthreads"}, {"pthreads", "pthread"}} /\ threadLibs = "-lpthreads"
        \/ env.threads = {"pthread"} /\ threadLibs = "-lpthread"
        \/ env.threads = {} /\ threadLibs = NoLibs

\* The run stopped because of the names, the pointers or the system.
Rejected ==
  \/ env.names \intersect KnownNames = {}
  \/ Pointers = {0}
  \/ env.system \notin KnownSystems

IInv ==
  /\ env \in Environments
  /\ at \in Blocks \union {"refused", "fatal"}
  /\ at \in AfterArch => ArchFound
  /\ at \in AfterBits => BitsFound
  /\ at \in AfterPlatform => PlatformFound
  /\ at \in Blocks \ AfterThreads => ThreadLibsBefore
  /\ at \in AfterThreads => ThreadLibsFound
  /\ at = "done" => target = <<platform, arch, bits>>
  /\ at = "fatal" => Rejected

\* There are names and pointers to look at, if only ones that are not set.
LEMMA EnvTyped ==
  ASSUME env \in Environments
  PROVE  /\ env.names # {} /\ env.names \subseteq Processors
         /\ Pointers \subseteq PointerSizes /\ Pointers # {}
         /\ env.preset \in BOOLEAN /\ env.threads \subseteq ThreadHomes
<1>1. PICK c \in Processors, d \in Processors, e \in Processors : env.names = {c, d, e}
  BY DEF Environments
<1>2. env.cPtr \in PointerSizes /\ env.cxxPtr \in PointerSizes
  BY DEF Environments
<1>3. env.preset \in BOOLEAN /\ env.threads \subseteq ThreadHomes
  BY DEF Environments
<1> QED
  BY <1>1, <1>2, <1>3 DEF Pointers

\* The library is in the place that has pthread_create, and the first such.
LEMMA LibFits ==
  ASSUME NEW homes \in SUBSET ThreadHomes
  PROVE  \/ "libc" \in homes /\ LibOf(homes) = ""
         \/ homes \in {{"pthreads"}, {"pthreads", "pthread"}} /\ LibOf(homes) = "-lpthreads"
         \/ homes = {"pthread"} /\ LibOf(homes) = "-lpthread"
         \/ homes = {} /\ LibOf(homes) = NoLibs
<1>1. homes \subseteq {"libc", "pthreads", "pthread"}
  BY DEF ThreadHomes
<1>2. CASE "libc" \in homes
  BY <1>2 DEF LibOf
<1>3. CASE "libc" \notin homes /\ "pthreads" \in homes
  <2>1. homes = {"pthreads"} \/ homes = {"pthreads", "pthread"}
    <3>1. CASE "pthread" \in homes
      <4>1. homes = {"pthreads", "pthread"}
        BY <1>1, <1>3, <3>1
      <4> QED
        BY <4>1
    <3>2. CASE "pthread" \notin homes
      <4>1. homes = {"pthreads"}
        BY <1>1, <1>3, <3>2
      <4> QED
        BY <4>1
    <3> QED
      BY <3>1, <3>2
  <2> QED
    BY <1>3, <2>1 DEF LibOf
<1>4. CASE "libc" \notin homes /\ "pthreads" \notin homes /\ "pthread" \in homes
  <2>1. homes = {"pthread"}
    BY <1>1, <1>4
  <2> QED
    BY <1>4, <2>1 DEF LibOf
<1>5. CASE "libc" \notin homes /\ "pthreads" \notin homes /\ "pthread" \notin homes
  <2>1. homes = {}
    BY <1>1, <1>5
  <2> QED
    BY <1>5, <2>1 DEF LibOf
<1> QED
  BY <1>2, <1>3, <1>4, <1>5

-----------------------------------------------------------------------------
(* Invariance *)

LEMMA InitInv == Init => IInv
BY DEF Init, IInv, Blocks, AfterArch, AfterBits, AfterPlatform, AfterThreads, ThreadLibsBefore

LEMMA NextInv ==
  ASSUME IInv, [Next]_vars
  PROVE  IInv'
<1> USE DEF IInv, Blocks, AfterArch, AfterBits, AfterPlatform, AfterThreads
<1>1. CASE CheckVersion
  BY <1>1 DEF CheckVersion, ThreadLibsBefore
<1>2. CASE DetectArch
  <2>1. env' = env /\ threadLibs' = threadLibs
    BY <1>2 DEF DetectArch
  <2>2. CASE env.names \intersect KnownNames # {}
    <3>1. at = "arch" /\ at' = "bits" /\ ArchFound'
      BY <1>2, <2>1, <2>2 DEF DetectArch, Block, ArchFound, KnownNames
    <3> QED
      BY <2>1, <3>1 DEF ThreadLibsBefore
  <2>3. CASE env.names \intersect KnownNames = {}
    <3>1. at' = "fatal" /\ Rejected'
      BY <1>2, <2>1, <2>3 DEF DetectArch, Block, KnownNames, Rejected
    <3> QED
      BY <2>1, <3>1
  <2> QED
    BY <2>2, <2>3
<1>3. CASE DetectBits
  <2>1. env' = env /\ threadLibs' = threadLibs /\ arch' = arch /\ at = "bits"
    BY <1>3 DEF DetectBits, Block
  <2>2. CASE Pointers # {0}
    <3>1. at' = "platform"
      BY <1>3, <2>2 DEF DetectBits, Block
    <3>2. 4 \in Pointers \/ 8 \in Pointers
      BY <2>2, EnvTyped DEF PointerSizes
    <3>3. BitsFound'
      BY <1>3, <2>1, <2>2, <3>2 DEF DetectBits, BitsFound, Pointers
    <3>4. ArchFound'
      BY <2>1 DEF ArchFound
    <3> QED
      BY <2>1, <3>1, <3>3, <3>4 DEF ThreadLibsBefore
  <2>3. CASE Pointers = {0}
    <3>1. at' = "fatal" /\ Rejected'
      BY <1>3, <2>1, <2>3 DEF DetectBits, Block, Pointers, Rejected
    <3> QED
      BY <2>1, <3>1
  <2> QED
    BY <2>2, <2>3
<1>4. CASE DetectPlatform
  <2>1. env' = env /\ threadLibs' = threadLibs /\ arch' = arch /\ bits' = bits /\ at = "platform"
    BY <1>4 DEF DetectPlatform, Block
  <2>2. CASE env.system \in KnownSystems
    <3>1. at' = "threads" /\ PlatformFound'
      BY <1>4, <2>1, <2>2 DEF DetectPlatform, Block, PlatformFound, KnownSystems
    <3>2. ArchFound' /\ BitsFound'
      BY <2>1 DEF ArchFound, BitsFound, Pointers
    <3> QED
      BY <2>1, <3>1, <3>2 DEF ThreadLibsBefore
  <2>3. CASE env.system \notin KnownSystems
    <3>1. at' = "fatal" /\ Rejected'
      BY <1>4, <2>1, <2>3 DEF DetectPlatform, Block, KnownSystems, Rejected
    <3> QED
      BY <2>1, <3>1
  <2> QED
    BY <2>2, <2>3
<1>5. CASE FindThreadLibs
  <2>1. /\ env' = env /\ arch' = arch /\ bits' = bits /\ platform' = platform
        /\ at = "threads" /\ at' = "targets"
    BY <1>5 DEF FindThreadLibs, Block
  <2>2. ArchFound' /\ BitsFound' /\ PlatformFound'
    BY <2>1 DEF ArchFound, BitsFound, PlatformFound, Pointers
  <2>3. env.preset \in BOOLEAN /\ env.threads \in SUBSET ThreadHomes
    BY EnvTyped
  <2>4. threadLibs' = IF platform = "windows" \/ threadLibs # NoLibs THEN threadLibs
                      ELSE LibOf(env.threads)
    BY <1>5 DEF FindThreadLibs
  <2>5. ThreadLibsBefore /\ platform = env.system
    BY <2>1 DEF PlatformFound
  <2>6. CASE env.preset \/ env.system = "windows"
    <3>1. threadLibs' = threadLibs
      BY <2>4, <2>5, <2>6 DEF ThreadLibsBefore, NoLibs
    <3>2. ThreadLibsFound'
      BY <2>1, <2>3, <2>5, <2>6, <3>1 DEF ThreadLibsBefore, ThreadLibsFound
    <3> QED
      BY <2>1, <2>2, <3>2
  <2>7. CASE ~env.preset /\ env.system # "windows"
    <3>1. threadLibs' = LibOf(env.threads)
      BY <2>4, <2>5, <2>7 DEF ThreadLibsBefore, NoLibs
    <3>2. ThreadLibsFound'
      BY <2>1, <2>3, <2>7, <3>1, LibFits DEF ThreadLibsFound
    <3> QED
      BY <2>1, <2>2, <3>2
  <2> QED
    BY <2>3, <2>6, <2>7
<1>6. CASE AddTargets
  <2>1. /\ env' = env /\ arch' = arch /\ bits' = bits /\ platform' = platform
        /\ threadLibs' = threadLibs /\ at = "targets" /\ at' = "done"
        /\ target' = <<platform, arch, bits>>
    BY <1>6 DEF AddTargets, Block
  <2> QED
    BY <2>1 DEF ArchFound, BitsFound, PlatformFound, Pointers, ThreadLibsFound
<1>7. CASE Ended \/ UNCHANGED vars
  <2>1. UNCHANGED vars
    BY <1>7 DEF Ended
  <2> QED
    BY <2>1 DEF vars, ArchFound, BitsFound, PlatformFound, Pointers,
                ThreadLibsBefore, ThreadLibsFound, Rejected
<1> QED
  BY <1>1, <1>2, <1>3, <1>4, <1>5, <1>6, <1>7 DEF Next

\* Every block leaves behind what its part of the environment says, and a run
\* only stops where nothing that CMake knows of the build matches.
THEOREM Invariance == Spec => []IInv
<1> QED
  BY InitInv, NextInv, PTL DEF Spec

-----------------------------------------------------------------------------
(* Theorems *)

LEMMA ShippedAre ==
  ASSUME NEW lib
  PROVE  lib \in Shipped <=>
           \E s \in KnownSystems, a \in {"x86", "sparc"}, b \in {32, 64} :
             lib = <<s, a, b>> /\ (s = "sunos" <=> a = "sparc")
BY DEF Shipped, KnownSystems

LEMMA NamesDecide ==
  ASSUME IInv, NEW a \in {"x86", "sparc"}, env.names # {""},
         env.names \subseteq (IF a = "x86" THEN X86Names ELSE SparcNames) \union {""}
  PROVE  /\ env.names \intersect KnownNames # {}
         /\ ArchFound => arch = a
<1>1. env.names # {}
  BY EnvTyped DEF IInv
<1>2. PICK n \in env.names : n # ""
  BY <1>1
<1>3. CASE a = "x86"
  <2>1. n \in X86Names
    BY <1>2, <1>3
  <2> QED
    BY <1>2, <1>3, <2>1 DEF ArchFound, KnownNames
<1>4. CASE a = "sparc"
  <2>1. n \in SparcNames
    BY <1>2, <1>4
  <2>2. env.names \intersect X86Names = {}
    BY <1>4, ConfigAssumption
  <2> QED
    BY <1>2, <1>4, <2>1, <2>2 DEF ArchFound, KnownNames
<1> QED
  BY <1>3, <1>4

LEMMA SupportedInv == IInv => SupportedGetsItsLibrary
<1> SUFFICES ASSUME IInv, NEW lib \in Shipped, Supported(lib)
             PROVE  at # "fatal" /\ (at = "done" => target = lib)
  BY DEF SupportedGetsItsLibrary
<1>1. PICK s \in KnownSystems, a \in {"x86", "sparc"}, b \in {32, 64} : lib = <<s, a, b>>
  BY ShippedAre
<1>2. lib[1] = s /\ lib[2] = a /\ lib[3] = b
  BY <1>1
<1>3. /\ env.system = s
      /\ env.names # {""} /\ env.names \subseteq (IF a = "x86" THEN X86Names ELSE SparcNames) \union {""}
      /\ Pointers # {0} /\ Pointers \subseteq {0, b \div 8}
  BY <1>2 DEF Supported, Consistent
<1>4. /\ env.names \intersect KnownNames # {}
      /\ ArchFound => arch = a
  BY <1>3, NamesDecide
<1>5. BitsFound => bits = b
  <2>1. PICK p \in Pointers : p # 0
    <3>1. Pointers # {}
      BY EnvTyped DEF IInv
    <3>2. Pointers # {0}
      BY <1>3
    <3>3. \A S : S # {} /\ S # {0} => \E q \in S : q # 0
      OBVIOUS
    <3> QED
      BY <3>1, <3>2, <3>3
  <2>2. p = b \div 8 /\ \A q \in Pointers : q = 0 \/ q = p
    BY <1>3, <2>1
  <2>3. 32 \div 8 = 4 /\ 64 \div 8 = 8
    OBVIOUS
  <2>4. CASE b = 32
    <3>1. 4 \in Pointers
      BY <2>1, <2>2, <2>3, <2>4
    <3> QED
      BY <2>4, <3>1 DEF BitsFound
  <2>5. CASE b = 64
    <3>1. 4 \notin Pointers
      BY <2>2, <2>3, <2>5
    <3> QED
      BY <2>5, <3>1 DEF BitsFound
  <2> QED
    BY <2>4, <2>5
<1>6. at # "fatal"
  BY <1>3, <1>4 DEF IInv, Rejected
<1>7. ASSUME at = "done" PROVE target = lib
  <2>1. ArchFound /\ BitsFound /\ PlatformFound /\ target = <<platform, arch, bits>>
    BY <1>7 DEF IInv, AfterArch, AfterBits, AfterPlatform
  <2>2. platform = s /\ arch = a /\ bits = b
    BY <1>3, <1>4, <1>5, <2>1 DEF PlatformFound
  <2> QED
    BY <1>1, <2>1, <2>2
<1> QED
  BY <1>6, <1>7

\* Every supported environment is accepted and gets its own libraries, whatever
\* the names of its processors are.
THEOREM Supports == Spec => []SupportedGetsItsLibrary
<1> QED
  BY Invariance, SupportedInv, PTL

\* The targets link with a thread library exactly if one is needed, and with the
\* first that will do; what the caller has set is kept.
THEOREM ThreadsLink == Spec => []ThreadsLinkable
<1>1. IInv => ThreadsLinkable
  <2> SUFFICES ASSUME IInv, at = "done" PROVE ThreadsLinkable
    BY DEF ThreadsLinkable
  <2>1. ThreadLibsFound /\ platform = env.system
    BY DEF IInv, AfterThreads, AfterArch, AfterBits, AfterPlatform, PlatformFound
  <2>2. env.preset \in BOOLEAN
    BY EnvTyped DEF IInv
  <2>3. CASE env.preset /\ threadLibs = "preset"
    BY <2>3 DEF ThreadsLinkable, NoLibs
  <2>4. CASE ~env.preset /\ env.system = "windows" /\ threadLibs = NoLibs
    BY <2>1, <2>4 DEF ThreadsLinkable, NoLibs
  <2>5. CASE ~env.preset /\ platform # "windows" /\ "libc" \in env.threads /\ threadLibs = ""
    BY <2>5 DEF ThreadsLinkable, NoLibs
  <2>6. CASE /\ ~env.preset /\ platform # "windows"
             /\ env.threads \in {{"pthreads"}, {"pthreads", "pthread"}}
             /\ threadLibs = "-lpthreads"
    BY <2>6 DEF ThreadsLinkable, NoLibs
  <2>7. CASE /\ ~env.preset /\ platform # "windows"
             /\ env.threads = {"pthread"} /\ threadLibs = "-lpthread"
    BY <2>7 DEF ThreadsLinkable, NoLibs
  <2>8. CASE ~env.preset /\ platform # "windows" /\ env.threads = {} /\ threadLibs = NoLibs
    BY <2>8 DEF ThreadsLinkable, NoLibs
  <2> QED
    BY <2>1, <2>3, <2>4, <2>5, <2>6, <2>7, <2>8 DEF ThreadLibsFound
<1> QED
  BY <1>1, Invariance, PTL

\* An environment that is accepted although there is no library for it is a
\* known system on a known architecture, only not this one on that one: the
\* scripts look at each of them alone.
THEOREM OnlyMixturesAccepted ==
  Spec => [](at = "done" /\ (platform = "sunos" <=> arch = "sparc") => target \in Shipped)
<1>1. IInv => (at = "done" /\ (platform = "sunos" <=> arch = "sparc") => target \in Shipped)
  <2> SUFFICES ASSUME IInv, at = "done", platform = "sunos" <=> arch = "sparc"
               PROVE  target \in Shipped
    OBVIOUS
  <2>1. ArchFound /\ BitsFound /\ PlatformFound /\ target = <<platform, arch, bits>>
    BY DEF IInv, AfterArch, AfterBits, AfterPlatform
  <2>2. platform \in KnownSystems /\ arch \in {"x86", "sparc"} /\ bits \in {32, 64}
    BY <2>1 DEF ArchFound, BitsFound, PlatformFound
  <2> QED
    BY <2>1, <2>2, ShippedAre
<1> QED
  BY <1>1, Invariance, PTL
=============================================================================
