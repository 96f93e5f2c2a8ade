------------------------------ MODULE MCStudio ------------------------------
\* Two pads with one layer each, memory for two samples; every project can be saved.
EXTENDS Studio

MCPads == 0 .. 1
=============================================================================
