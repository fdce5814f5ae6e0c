--------------------------- MODULE MCDeferredClose ---------------------------
EXTENDS DeferredClose

Lengths(fh, name, other, owner, data, tag, ops, size) ==
  [fh |-> fh, name |-> name, other |-> other, owner |-> owner, data |-> data, tag |-> tag,
   max_compound_ops |-> ops, max_request_size |-> size]

\* Everything fits; few long requests fit; few operations fit.
MCLens == {Lengths(5, 3, 4, 9, 3, 3, 16, 4000), Lengths(128, 1, 8, 6, 0, 7, 16, 400),
           Lengths(4, 2, 3, 7, 5, 2, 4, 600)}
MCPages == {-1, 1}
==============================================================================
