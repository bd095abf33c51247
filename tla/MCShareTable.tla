---------------------------- MODULE MCShareTable ----------------------------
(* ShareTable with names and connections that are interchangeable: neither  *)
(* is ever ordered or compared with anything but its like.                  *)
EXTENDS ShareTable, TLC

AllCalls == Lookups \cup Creates \cup Removes \cup {"rename"}
CoreCalls == {"mount", "lookup", "guarded", "remove", "rename"}
RemoveCalls == {"mount", "lookup", "guarded", "remove"}

Scene(alone, calls, depth, bound, midCrash) ==
  [alone |-> alone, calls |-> calls, depth |-> depth, files |-> bound, ids |-> bound, midCrash |-> midCrash]

\* One operation at a time; operations that interleave; and long moves; a crash anywhere.
Serial == Scene(TRUE, AllCalls, 2, 4, FALSE)
Crash2 == Scene(FALSE, CoreCalls, 1, 3, TRUE)
Deep   == Scene(TRUE, AllCalls, 2, 3, TRUE)

MCScenes == {Serial, Crash2, Deep}
ReuseScenes == {Scene(TRUE, RemoveCalls, 1, 3, TRUE)}

\* The table's file as what it replays to.  Every later step, and every property,
\* depends on the lines only through that, and on their number only where it
\* reaches MaxLog, which it does not.
View == <<scene, host, dirs, nfiles, phase, mem, Play(Empty, log), conn, issued>>

Symmetry == Permutations(Names) \cup Permutations(Conns)
=============================================================================
