--------------------------- MODULE MCVarsizeFrob ---------------------------
(***************************************************************************)
(* A uniform chip, a bottom-boot and a top-boot chip, a chip with three    *)
(* regions, and two bottom-boot chips side by side.                        *)
(***************************************************************************)
EXTENDS VarsizeFrob

MCGeometries ==
    { Setup(<< <<4, 4>> >>, 1),
      Setup(<< <<2, 4>>, <<4, 2>> >>, 1),
      Setup(<< <<4, 2>>, <<2, 4>> >>, 1),
      Setup(<< <<2, 2>>, <<4, 2>>, <<2, 2>> >>, 1),
      Setup(<< <<2, 2>>, <<4, 1>> >>, 2) }
==============================================================================
