--------------------------- MODULE MCHostDirectory ---------------------------
(***************************************************************************)
(* An instance of HostDirectory for TLC.                                   *)
(***************************************************************************)
EXTENDS HostDirectory

\* Objects are interchangeable.
ObjectSymmetry == Permutations(Objects)

\* Credit is not consulted once an entry is live or gone.
View ==
  <<entries, keys, cursor, held, headers,
    [o \in Objects |-> IF o \in DOMAIN entries /\ <<o, entries[o]>> \notin held
                       THEN credit[o] ELSE 0]>>
=============================================================================
