--------------------------- MODULE MCProviderQuotes ---------------------------
(* Instances of ProviderQuotes for TLC. *)
EXTENDS ProviderQuotes

\* Settings that nothing reads have one value.
MCInit ==
  /\ QuotesInit
  /\ client.bps = 0 => ~client.feeToWallet
  /\ ~client.sponsor => ~client.sponsorIsWallet

MCSpec == MCInit /\ [][QuotesNext]_allVars
=============================================================================
