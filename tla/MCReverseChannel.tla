-------------------------- MODULE MCReverseChannel --------------------------
EXTENDS ReverseChannel

CONSTANTS k1, k2
MCServiceOf == k1 :> "manifest" @@ k2 :> "ledger"
=============================================================================
