--------------------------- MODULE MCPortfolioLive ---------------------------
(* PortfolioLive with the instances of its .cfg files *)
EXTENDS PortfolioLive

=============================================================================
