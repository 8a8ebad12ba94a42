------------------------- MODULE MCRealityListener --------------------------
(* Two members of Conn, each used again and again; the first record of the *)
(* second may stay incomplete.  A token is valid in the second it was made *)
(* in, and its entry is purged in the next one; MCRealityAuth has the wider*)
(* windows and the clocks that differ.  The ClientHellos differ in the     *)
(* length of every vector, one longer than 255.                            *)
EXTENDS RealityListener

CONSTANTS c1, c2, t1, t2

Names(ns) == [type |-> 0, names |-> ns, data |-> <<>>]
Other     == [type |-> 16, names |-> <<>>, data |-> <<7>>]
Host(n)   == [type |-> 0, name |-> n]

HelloSet ==
    {[sid |-> <<t1>>, suites |-> <<19, 1>>, comps |-> <<0>>,
      exts |-> <<Other, Names(<<[type |-> 1, name |-> <<8>>], Host(<<9, 9>>)>>)>>],
     [sid |-> <<t2>>, suites |-> [i \in 1..257 |-> i % 2], comps |-> <<>>,
      exts |-> <<Names(<<>>), Names(<<Host(<<8>>)>>)>>],
     [sid |-> <<>>, suites |-> <<>>, comps |-> <<0, 0>>, exts |-> <<>>]}
=============================================================================
