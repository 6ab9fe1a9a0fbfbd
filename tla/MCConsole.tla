----------------------------- MODULE MCConsole -----------------------------
(***************************************************************************)
(* TLC instance of Console, with 8-bit integers (so bf has 5 characters).  *)
(***************************************************************************)
EXTENDS Console

Lit(ch) == [lit |-> ch]
Conv(ch, w, lz, arg) == [ch |-> ch, w |-> w, lz |-> lz, arg |-> arg]
Bare(ch) == [ch |-> ch, w |-> 0, lz |-> 0]

MCCalls ==
    {<<Lit("n"), Conv("d", 0, 0, n)>> : n \in {-128, -1, 0, 9, 10, 127}}
    \cup {<<Conv("u", w, 0, n)>> : w \in {0, 2}, n \in {0, 100, 255}}
    \cup {<<Conv(ch, 3, 1, n), Lit("n")>> : ch \in {"x", "X"}, n \in {15, 171}}
    \cup {<<Conv("d", 5, lz, -12)>> : lz \in {0, 1}}
    \cup {<<Conv("c", 0, 0, "n"), Conv("s", 3, 1, <<"o", "k">>), Bare("%"), Bare("l")>>,
          <<Conv("x", 0, 0, 256 + 10), Bare(NUL)>>}

MCFirmware == {{0, 9, 20, 29}, {14, 17}, 0..31}
=============================================================================
