---------------------------- MODULE MCSamplerDesk ----------------------------
\* One key and one note, which two banks answer to in turn, and a layer of eight frames.
EXTENDS SamplerDesk

CONSTANTS K, N

MCMappings == {<<{K}, {N}>>, <<{N}, {K}>>}
MCTrims == {[start |-> 0, end |-> 8], [start |-> 3, end |-> 8]}
Wave(levels) == [f \in 0 .. 7 |-> levels[f + 1]]
MCEnvelopes == {Wave(<<0, 1, 0, 3, 3, 0, 1, 2>>)}
=============================================================================
