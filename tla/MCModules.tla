------------------------------- MODULE MCModules -------------------------------
(* Model checking of Modules: b and the files that refer to its symbol (a, that  *)
(* a class of c derives from), another file that defines the same symbol but     *)
(* needs a, and a library that a needs.                                          *)
EXTENDS Modules

CONSTANTS a, b, c, d, lib, sa, sb, sl, sk

MCDefines == (a :> {sa}) @@ (b :> {sb}) @@ (c :> {}) @@ (d :> {sb}) @@ (lib :> {sl})
MCRefers ==
  (a :> {sb, sk}) @@ (b :> {}) @@ (c :> {sa, sl}) @@ (d :> {sa, sl}) @@ (lib :> {})
=============================================================================
