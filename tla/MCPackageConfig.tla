---------------------------- MODULE MCPackageConfig ----------------------------
(* Instance of PackageConfig for TLC.  The names are what CMake reports on the *)
(* supported platforms and on the nearest others.                              *)
EXTENDS PackageConfig

MCProcessors == {"", "x86_64", "i386", "sparc", "aarch64"}
MCX86Names == {"x86_64", "i386"}
MCSparcNames == {"sparc"}
MCSystems == {"windows", "linux", "sunos", "darwin"}
MCRequests == {<<>>, <<0, 9>>, <<1, 2>>, <<1, 7, 1>>, <<1, 7, 1, 1>>, <<1, 8>>, <<2>>}

\* Solaris, on either of its architectures.
SolarisProcessors == {"", "i386", "sparc"}
SolarisX86Names == {"i386"}
SolarisSystems == {"sunos"}
SolarisRequests == {<<1, 2>>}
===============================================================================
