--------------------------- MODULE MCPackageManifest ---------------------------
(* A package of code, a file in a folder spelled with either slash, a file of *)
(* the system, and the signature.                                             *)
EXTENDS PackageManifest

MCRaw == {"a", "dir/b", "dir\\b", ".DS_Store", ".appsyncrelease"}
MCSlash == [r \in Raw |-> IF r = "dir\\b" THEN "dir/b" ELSE r]
MCNormalize == MCSlash
MCNames == {MCNormalize[r] : r \in Raw}
MCKind == [n \in MCNames |->
             CASE n = ".DS_Store" -> "DS_Store"
               [] n = ".appsyncrelease" -> "appsyncrelease"
               [] OTHER -> "code"]

=============================================================================
