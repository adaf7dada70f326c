---------------------------- MODULE PackageConfig ----------------------------
(***************************************************************************)
(* The CMake package of the SDK, run once by an application's build:       *)
(* find_package asks onesdk-config-version.cmake whether the version fits, *)
(* then onesdk-config.cmake selects the libraries for the platform         *)
(* (onesdk-platform.cmake), looks for pthreads and adds the targets.       *)
(* Each block of the scripts is one action; env is what CMake knows before *)
(* and no script changes.                                                  *)
(***************************************************************************)
EXTENDS Integers, Sequences

CONSTANTS Processors,  \* what CMAKE_C_COMPILER_ARCHITECTURE_ID, its CXX twin and
                       \* CMAKE_SYSTEM_PROCESSOR can be, "" for unset
          X86Names,    \* those that match onesdk-platform.cmake:18-20
          SparcNames,  \* those that match onesdk-platform.cmake:23-25
          Systems,     \* what the target's operating system can be
          Requests     \* versions asked for, <<>> for none

Version == <<1, 7, 1>>

\* Where pthread_create can be found.
ThreadHomes == {"libc", "pthreads", "pthread"}
PointerSizes == {0, 4, 8}  \* 0: unset or neither of the others

Environments ==
  [names : {{c, cxx, system} : c, cxx, system \in Processors},
   cPtr : PointerSizes, cxxPtr : PointerSizes, system : Systems,
   threads : SUBSET ThreadHomes, preset : BOOLEAN, request : Requests]

\* A name that is not set matches nothing.
ASSUME ConfigAssumption ==
  /\ X86Names \subseteq Processors \ {""} /\ SparcNames \subseteq Processors \ {""}
  /\ X86Names \intersect SparcNames = {}
  /\ Requests \subseteq Seq(Nat)

VARIABLES env, at, arch, bits, platform, threadLibs, target

vars == <<env, at, arch, bits, platform, threadLibs, target>>

NoLibs == "undefined"
NoTarget == <<>>

Init ==
  /\ env \in Environments
  /\ at = "version" /\ arch = "" /\ bits = 0 /\ platform = "" /\ target = NoTarget
  /\ threadLibs = IF env.preset THEN "preset" ELSE NoLibs

\* A block of the script ends with the next one or with FATAL_ERROR.
Block(from, ok, to) == at = from /\ at' = IF ok THEN to ELSE "fatal"

-------------------------------------------------------------------------------
\* Components that are not given count as zero.
Component(v, i) == IF i <= Len(v) THEN v[i] ELSE 0
VersionLess(v, w) ==
  \E i \in 1..4 :
    /\ Component(v, i) < Component(w, i)
    /\ \A j \in 1..(i - 1) : Component(v, j) = Component(w, j)

Compatible(request) ==
  /\ Version[1] = Component(request, 1)
  /\ ~ VersionLess(Version, request)

\* find_package only asks for the verdict if a version was requested.
CheckVersion ==
  /\ at = "version"
  /\ at' = IF env.request = <<>> \/ Compatible(env.request) THEN "arch" ELSE "refused"
  /\ UNCHANGED <<env, arch, bits, platform, threadLibs, target>>

DetectArch ==
  /\ Block("arch", env.names \intersect (X86Names \union SparcNames) # {}, "bits")
  /\ arch' = IF env.names \intersect X86Names # {} THEN "x86"
             ELSE IF env.names \intersect SparcNames # {} THEN "sparc" ELSE arch
  /\ UNCHANGED <<env, bits, platform, threadLibs, target>>

Pointers == {env.cPtr, env.cxxPtr}

\* Mutant: the pointers of C alone decide.
DetectBitsOfC ==
  /\ Block("bits", env.cPtr # 0, "platform")
  /\ bits' = env.cPtr * 8
  /\ UNCHANGED <<env, arch, platform, threadLibs, target>>

DetectBits ==
  /\ Block("bits", Pointers # {0}, "platform")
  /\ bits' = IF 4 \in Pointers THEN 32 ELSE IF 8 \in Pointers THEN 64 ELSE bits
  /\ UNCHANGED <<env, arch, platform, threadLibs, target>>

DetectPlatform ==
  /\ Block("platform", env.system \in {"windows", "linux", "sunos"}, "threads")
  /\ platform' = IF env.system \in {"windows", "linux", "sunos"} THEN env.system ELSE platform
  /\ UNCHANGED <<env, arch, bits, threadLibs, target>>

\* Mutant: an empty value counts as not set, and the search goes on.
LibOfEmptyUnset(homes) ==
  IF "pthreads" \in homes THEN "-lpthreads"
  ELSE IF "pthread" \in homes THEN "-lpthread"
  ELSE IF "libc" \in homes THEN "" ELSE NoLibs

\* What to link with for the first of the places that has pthread_create.
LibOf(homes) ==
  IF "libc" \in homes THEN ""
  ELSE IF "pthreads" \in homes THEN "-lpthreads"
  ELSE IF "pthread" \in homes THEN "-lpthread"
  ELSE NoLibs

\* if (UNIX), unless the caller has set onesdk_thread_libs; if no place has
\* pthread_create it stays undefined.
FindThreadLibs ==
  /\ Block("threads", TRUE, "targets")
  /\ threadLibs' = IF platform = "windows" \/ threadLibs # NoLibs THEN threadLibs
                   ELSE LibOf(env.threads)
  /\ UNCHANGED <<env, arch, bits, platform, target>>

\* onesdk_static and onesdk_shared refer to files in onesdk_lib_subdir.
AddTargets ==
  /\ Block("targets", TRUE, "done")
  /\ target' = <<platform, arch, bits>>
  /\ UNCHANGED <<env, arch, bits, platform, threadLibs>>

Ended == at \in {"refused", "fatal", "done"} /\ UNCHANGED vars

Next ==
  \/ CheckVersion \/ DetectArch \/ DetectBits \/ DetectPlatform \/ FindThreadLibs
  \/ AddTargets \/ Ended

Spec == Init /\ [][Next]_vars

-------------------------------------------------------------------------------
\* The directories under lib/.
Shipped ==
  {<<s, "x86", b>> : s \in {"windows", "linux"}, b \in {32, 64}} \union
  {<<"sunos", "sparc", b>> : b \in {32, 64}}

\* A build as its tools report it: one architecture, one size of pointers, with
\* a tool that does not know it saying nothing, but not all of them.
Consistent(a, p) ==
  /\ env.names # {""} /\ env.names \subseteq a \union {""}
  /\ Pointers # {0} /\ Pointers \subseteq {0, p}
Supported(lib) ==
  /\ env.system = lib[1]
  /\ Consistent(IF lib[2] = "x86" THEN X86Names ELSE SparcNames, lib[3] \div 8)

\* Every environment of README.md:1004-1007 is accepted and gets the libraries
\* that were built for it: those of its own architecture, size and system.
SupportedGetsItsLibrary ==
  \A lib \in Shipped :
    Supported(lib) => at # "fatal" /\ (at = "done" => target = lib)

\* Linking asks for a thread library exactly if it is needed, and for the first
\* that will do: for none if libc has pthread_create, for pthread only if neither
\* of the other places has it, for nothing on Windows; and what the caller has
\* set is kept.  It is left open only if there is no place to be found.
ThreadsLinkable ==
  at = "done" =>
    /\ env.preset <=> threadLibs = "preset"
    /\ threadLibs = "" => "libc" \in env.threads
    /\ threadLibs = "-lpthreads" => "libc" \notin env.threads /\ "pthreads" \in env.threads
    /\ threadLibs = "-lpthread" => env.threads = {"pthread"}
    /\ platform # "windows" /\ threadLibs = NoLibs => env.threads = {}
    /\ platform = "windows" => threadLibs \in {"preset", NoLibs}

\* README.md:1007: what is accepted without an error is one of the supported
\* environments, "Solaris on SPARC (x86 is *not* supported)" among them.
AcceptedIsSupported == at = "done" => target \in Shipped
===============================================================================
