------------------------------- MODULE MCTops -------------------------------
EXTENDS Tops

=============================================================================
