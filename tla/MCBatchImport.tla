----------------------------- MODULE MCBatchImport -----------------------------
\* A book with its title on the cover and its ISBN on a second photo.
EXTENDS BatchReconcile, TLC

CONSTANTS cover, barcode, t1, t2

OnePair   == cover :> cover @@ barcode :> cover
OnePrints == cover :> {"title"} @@ barcode :> {"isbn"}

Options(yes, failed, unknown) == [yes : yes, failed : failed, unknown : unknown]

\* Runs alone: with all options, and requests carried out late; with photos in doubt.  And a
\* library that is kept up, with runs that take what was confirmed.
MCScenes ==
    { [options |-> Option, doubts |-> {FALSE}, late |-> TRUE, twins |-> {}, changes |-> 0],
      [options |-> Options(BOOLEAN, BOOLEAN, {FALSE}), doubts |-> BOOLEAN,
       late |-> FALSE, twins |-> {}, changes |-> 0] }
    \cup { [options |-> Options({FALSE}, {FALSE}, {FALSE}), doubts |-> {FALSE}, late |-> FALSE,
            twins |-> {t}, changes |-> 1] : t \in {t1, t2} }
=============================================================================
