---------------------------- MODULE PlatformsMC ----------------------------
(* Small instances of Platforms for TLC. *)
EXTENDS Platforms, TLC

Symmetry == Permutations(Plat) \union Permutations(Cred)
            \union Permutations(Secret) \union Permutations(Settings)
=============================================================================
